---- MODULE Spec2Model ----
(***************************************************************************)
(* Model of dynamodb-turbine: key/index resolution (src/src/parsing.ts),   *)
(* expression generation (src/src/expressions.ts) and the entity           *)
(* operations built on them (src/src/entity.ts).                           *)
(*                                                                         *)
(* JavaScript values are records [t, s, l]: t is the runtime type, s the   *)
(* text of a string / number / boolean (or the single property name of an  *)
(* expression object), l the elements of an array (or the property value   *)
(* of an expression object).                                               *)
(***************************************************************************)
EXTENDS Integers, Sequences, FiniteSets, TLC

VARIABLES
    pc,        \* position of the running call: "idle", "await" (storage request in flight), "done"
    call,      \* the arguments of the running call
    sent,      \* the storage requests the running call has issued, in order
    outcome,   \* what the call resolved or rejected with
    frame,     \* the locals of the running call: queryAll's items, the pending query's options
    indexes,   \* definition.table.definition.indexes
    store,     \* what the table holds: the item under the key the concurrent updates
               \* address, or the set of the items of the table
    updates,   \* the concurrent entity.update calls: position, patch and request of each
    applied,   \* the writes storage has applied: the concurrent updates in the order it
               \* applied them, or the last put or delete applied under each primary key
    entity,    \* the entity the calls are made on: { definition } (defineEntity)
    instance   \* the instance the caller holds

vars == <<pc, call, sent, outcome, frame, indexes, store, updates, applied, entity, instance>>
\* what an operation of one entity call leaves alone
table == <<indexes, store, updates, applied, entity, instance>>

----------------------------------------------------------------------------
(* JavaScript values *)

Undef == [t |-> "undefined", s |-> "", l |-> <<>>]
Null == [t |-> "null", s |-> "", l |-> <<>>]
Str(s) == [t |-> "string", s |-> s, l |-> <<>>]
Num(s) == [t |-> "number", s |-> s, l |-> <<>>]
Bool(s) == [t |-> "boolean", s |-> s, l |-> <<>>]
List(l) == [t |-> "array", s |-> "", l |-> l]
\* an object literal with one property, { op: v }
Obj(op, v) == [t |-> "object", s |-> op, l |-> <<v>>]

IsArray(v) == v.t = "array"

\* `const v = x; return F(v)`, with x evaluated once
Bind(x, F(_)) == CHOOSE y \in {F(v) : v \in {x}} : TRUE

\* JavaScript truthiness, as used by `if (x)`, `x || y`, `x && y`
Truthy(v) ==
    CASE v.t = "undefined" -> FALSE
      [] v.t = "null" -> FALSE
      [] v.t = "string" -> v.s # ""
      [] v.t = "number" -> v.s # "0"
      [] v.t = "boolean" -> v.s = "true"
      [] OTHER -> TRUE

\* `v?.name`: the property of an expression object, undefined on anything else
Prop(v, name) == IF v.t = "object" /\ v.s = name THEN v.l[1] ELSE Undef

\* element i of a destructured array, undefined past its end
Elem(v, i) == IF IsArray(v) /\ i <= Len(v.l) THEN v.l[i] ELSE Undef

RECURSIVE JoinFrom(_, _, _)
\* String(x) as Array.prototype.join applies it: null and undefined give ""
ToStr(v) ==
    CASE v.t \in {"undefined", "null"} -> ""
      [] v.t \in {"string", "number", "boolean"} -> v.s
      [] v.t = "array" -> JoinFrom(v.l, 1, ",")
      [] OTHER -> "[object Object]"

JoinFrom(l, i, sep) ==
    IF i > Len(l) THEN ""
    ELSE IF i = Len(l) THEN ToStr(l[i])
    ELSE ToStr(l[i]) \o sep \o JoinFrom(l, i + 1, sep)

\* Array.prototype.join
Join(l, sep) == JoinFrom(l, 1, sep)

----------------------------------------------------------------------------
(* Objects whose entry order the code reads (Object.entries) are sequences *)
(* of entries [k, v] with distinct keys; maps that are only looked up are  *)
(* functions.                                                              *)

Entry(k, v) == [k |-> k, v |-> v]
Keys(o) == {o[i].k : i \in DOMAIN o}
Has(o, k) == k \in Keys(o)
Lookup(o, k) == IF Has(o, k) THEN o[CHOOSE i \in DOMAIN o : o[i].k = k].v ELSE Undef

EmptyMap == [x \in {} |-> Undef]
MapSet(m, k, v) == [x \in DOMAIN m \cup {k} |-> IF x = k THEN v ELSE m[x]]
\* { ...a, ...b }
Spread(a, b) == [x \in DOMAIN a \cup DOMAIN b |-> IF x \in DOMAIN b THEN b[x] ELSE a[x]]

----------------------------------------------------------------------------
(* Expression strings are kept as the sequence of the pieces the template  *)
(* literals concatenate: placeholders (#name, :value) and literal text.    *)

NameTok(s) == [k |-> "#", s |-> s]
ValueTok(s) == [k |-> ":", s |-> s]
Text(s) == [k |-> "text", s |-> s]

RECURSIVE Render(_)
\* the string the pieces make
Render(toks) == IF toks = <<>> THEN "" ELSE Head(toks).s \o Render(Tail(toks))

\* the #tokens / :tokens occurring in an expression
NameTokens(toks) == {toks[i].s : i \in {j \in DOMAIN toks : toks[j].k = "#"}}
ValueTokens(toks) == {toks[i].s : i \in {j \in DOMAIN toks : toks[j].k = ":"}}

RECURSIVE JoinToks(_, _)
\* clauses.join(sep) on sequences of pieces
JoinToks(clauses, sep) ==
    IF clauses = <<>> THEN <<>>
    ELSE IF Len(clauses) = 1 THEN clauses[1]
    ELSE clauses[1] \o <<Text(sep)>> \o JoinToks(Tail(clauses), sep)

\* a string-valued field that may be undefined
NoString == [def |-> FALSE, toks |-> <<>>]
String(toks) == [def |-> TRUE, toks |-> toks]

----------------------------------------------------------------------------
(* src/src/expressions.ts *)

\* buildValue: arrays are joined with "#", anything else is returned as is
buildValue(value) == IF IsArray(value) THEN Str(Join(value.l, "#")) ELSE value

SelectSeqDefined(patch) == SelectSeq(patch, LAMBDA e : e.v # Undef)
SelectSeqValued(patch) == SelectSeq(patch, LAMBDA e : e.v # Undef /\ e.v # Null)
SelectSeqNull(patch) == SelectSeq(patch, LAMBDA e : e.v = Null)

\* generateAttributeValues: one ":prefix key" entry per defined, non-null value
generateAttributeValues(patch, prefix) ==
    LET kept == SelectSeqValued(patch)
    IN [x \in {":" \o prefix \o kept[i].k : i \in DOMAIN kept} |->
            kept[CHOOSE i \in DOMAIN kept :
                    /\ ":" \o prefix \o kept[i].k = x
                    /\ \A j \in DOMAIN kept : ":" \o prefix \o kept[j].k = x => j <= i].v]

\* generateAttributeNames dropping null values as generateAttributeValues does
generateAttributeNames_SkipNull(patch, prefix) ==
    LET kept == SelectSeqValued(patch)
    IN [x \in {"#" \o prefix \o kept[i].k : i \in DOMAIN kept} |->
            kept[CHOOSE i \in DOMAIN kept : "#" \o prefix \o kept[i].k = x].k]

\* generateAttributeNames: one "#prefix key" entry per value that is not undefined
generateAttributeNames(patch, prefix) ==
    LET kept == SelectSeqDefined(patch)
    IN [x \in {"#" \o prefix \o kept[i].k : i \in DOMAIN kept} |->
            kept[CHOOSE i \in DOMAIN kept : "#" \o prefix \o kept[i].k = x].k]

\* `${attributeName} <op> ${attributeValue}` with the operand stored under the placeholder
Comparison(attributeName, attributeValue, op, operand) ==
    [toks |-> <<NameTok(attributeName), Text(" " \o op \o " "), ValueTok(attributeValue)>>,
     set |-> <<Entry(attributeValue, buildValue(operand))>>]

\* `fn(${attributeName}, ${attributeValue})`
Call2(attributeName, attributeValue, fn, operand) ==
    [toks |-> <<Text(fn \o "("), NameTok(attributeName), Text(", "),
                ValueTok(attributeValue), Text(")")>>,
     set |-> <<Entry(attributeValue, buildValue(operand))>>]

\* `fn(${attributeName})`, no value placeholder
Call1(attributeName, fn) ==
    [toks |-> <<Text(fn \o "("), NameTok(attributeName), Text(")")>>, set |-> <<>>]

\* the body of the map callback of generateFilterExpression: the clause of one
\* [attr, expression] entry and the value placeholders it assigns
FilterClause(prefix, attr, expression) ==
    LET attributeName == "#" \o prefix \o "_" \o attr
        attributeValue == ":" \o prefix \o "_" \o attr
        P(name) == Prop(expression, name)
    IN  IF Truthy(P("equals")) THEN
            Comparison(attributeName, attributeValue, "=", P("equals"))
        ELSE IF Truthy(P("notEquals")) THEN
            Comparison(attributeName, attributeValue, "<>", P("notEquals"))
        ELSE IF Truthy(P("greaterThan")) THEN
            Comparison(attributeName, attributeValue, ">", P("greaterThan"))
        ELSE IF Truthy(P("lessThan")) THEN
            Comparison(attributeName, attributeValue, "<", P("lessThan"))
        ELSE IF Truthy(P("greaterThanOrEquals")) THEN
            Comparison(attributeName, attributeValue, ">=", P("greaterThanOrEquals"))
        ELSE IF Truthy(P("lessThanOrEquals")) THEN
            Comparison(attributeName, attributeValue, "<=", P("lessThanOrEquals"))
        ELSE IF Truthy(P("between")) THEN
            [toks |-> <<NameTok(attributeName), Text(" BETWEEN "),
                        ValueTok(attributeValue \o "1"), Text(" AND "),
                        ValueTok(attributeValue \o "2")>>,
             set |-> <<Entry(attributeValue \o "1", buildValue(Elem(P("between"), 1))),
                       Entry(attributeValue \o "2", buildValue(Elem(P("between"), 2)))>>]
        ELSE IF Truthy(P("contains")) THEN
            Call2(attributeName, attributeValue, "contains", P("contains"))
        ELSE IF Truthy(P("notContains")) THEN
            Call2(attributeName, attributeValue, "not contains", P("notContains"))
        ELSE IF Truthy(P("beginsWith")) THEN
            Call2(attributeName, attributeValue, "begins_with", P("beginsWith"))
        ELSE IF Truthy(P("exists")) THEN
            Call1(attributeName, "attribute_exists")
        ELSE IF Truthy(P("notExists")) THEN
            Call1(attributeName, "attribute_not_exists")
        ELSE \* Default: equals
            Comparison(attributeName, attributeValue, "=", expression)

RECURSIVE Assignments(_, _, _)
\* the assignments ExpressionAttributeValues[k] = v the callback makes, in order
Assignments(ent, i, prefix) ==
    IF i > Len(ent) THEN <<>>
    ELSE FilterClause(prefix, ent[i].k, ent[i].v).set \o Assignments(ent, i + 1, prefix)

\* the map a sequence of assignments leaves: the last value assigned to each key
Assigned(set) ==
    [x \in {set[i].k : i \in DOMAIN set} |->
        set[CHOOSE i \in DOMAIN set :
                set[i].k = x /\ \A j \in DOMAIN set : set[j].k = x => j <= i].v]

\* an optional object argument: absent, or the entries of the object
Absent == [def |-> FALSE, ent |-> <<>>]
Object(ent) == [def |-> TRUE, ent |-> ent]

\* generateFilterExpression. `filters.length === 0` reads the property named
\* "length" of the filter object. The early return is `{}`: all three fields
\* undefined (the maps are only ever spread, where undefined adds nothing).
generateFilterExpression(filters, prefix) ==
    IF ~filters.def \/ Lookup(filters.ent, "length") = Num("0") THEN
        [FilterExpression |-> NoString,
         ExpressionAttributeNames |-> EmptyMap,
         ExpressionAttributeValues |-> EmptyMap]
    ELSE [FilterExpression |->
            String(JoinToks([i \in DOMAIN filters.ent |->
                                FilterClause(prefix, filters.ent[i].k, filters.ent[i].v).toks],
                            " AND ")),
          ExpressionAttributeNames |->
            Assigned([i \in DOMAIN filters.ent |->
                        Entry("#" \o prefix \o "_" \o filters.ent[i].k, filters.ent[i].k)]),
          ExpressionAttributeValues |->
            Bind(Assignments(filters.ent, 1, prefix), LAMBDA set : Assigned(set))]

\* the object literal generateQueryExpression returns
QueryExpressionOf(keyCondition, filter) ==
    [KeyConditionExpression |-> keyCondition.FilterExpression,
     FilterExpression |-> filter.FilterExpression,
     ExpressionAttributeNames |->
        Spread(keyCondition.ExpressionAttributeNames, filter.ExpressionAttributeNames),
     ExpressionAttributeValues |->
        Spread(keyCondition.ExpressionAttributeValues, filter.ExpressionAttributeValues)]

\* generateQueryExpression
generateQueryExpression(key, filters) ==
    Bind(generateFilterExpression(Object(key), "key"), LAMBDA keyCondition :
        Bind(generateFilterExpression(filters, "filter"), LAMBDA filter :
            QueryExpressionOf(keyCondition, filter)))

\* a SET clause that assigns whether or not the attribute exists
SetClause_Overwrite(key, doNotOverwrite) ==
    <<NameTok("#" \o key), Text(" = "), ValueTok(":" \o key)>>

\* one SET clause: `#key = :key`, or `#key = if_not_exists(#key, :key)`
SetClause(key, doNotOverwrite) ==
    IF key \in doNotOverwrite THEN
        <<NameTok("#" \o key), Text(" = "), Text("if_not_exists("), NameTok("#" \o key),
          Text(", "), ValueTok(":" \o key), Text(")")>>
    ELSE <<NameTok("#" \o key), Text(" = "), ValueTok(":" \o key)>>

setExpression(patch, doNotOverwrite) ==
    LET kept == SelectSeqValued(patch)
    IN [i \in DOMAIN kept |-> SetClause(kept[i].k, doNotOverwrite)]

\* removeExpression filtering with `value == null`, which undefined satisfies too
removeExpression_LooseNull(patch) ==
    LET kept == SelectSeq(patch, LAMBDA e : e.v = Null \/ e.v = Undef)
    IN [i \in DOMAIN kept |-> <<NameTok("#" \o kept[i].k)>>]

removeExpression(patch) ==
    LET kept == SelectSeqNull(patch)
    IN [i \in DOMAIN kept |-> <<NameTok("#" \o kept[i].k)>>]

\* expressionComponents.filter(Boolean).join(" ")
UpdateExpressionOf(setE, removeE) ==
    LET setPart == IF Len(setE) # 0 THEN <<<<Text("SET ")>> \o JoinToks(setE, ", ")>> ELSE <<>>
        removePart ==
            IF Len(removeE) # 0 THEN <<<<Text("REMOVE ")>> \o JoinToks(removeE, ", ")>> ELSE <<>>
    IN JoinToks(setPart \o removePart, " ")

\* generateUpdateExpression; doNotOverwrite is the set of names in the list
generateUpdateExpression(patch, doNotOverwrite) ==
    [UpdateExpression |->
        String(UpdateExpressionOf(setExpression(patch, doNotOverwrite), removeExpression(patch))),
     ExpressionAttributeNames |-> generateAttributeNames(patch, ""),
     ExpressionAttributeValues |-> generateAttributeValues(patch, "")]

----------------------------------------------------------------------------
(* Inputs of the expression generators *)

\* the longest filter object and patch the inputs hold
MaxFilterLen == 2
MaxPatchLen == 2

\* operands: a string, the falsy 0 and "", a number, a list of parts
Operands == {Str("x"), Str(""), Num("0"), Num("7"), List(<<Str("a"), Str("b")>>)}
ValueOps == {"equals", "notEquals", "greaterThan", "lessThan", "greaterThanOrEquals",
             "lessThanOrEquals", "contains", "notContains", "beginsWith"}
BetweenExprs == {Obj("between", List(<<Num("0"), Num("7")>>)),
                 Obj("between", List(<<Str("a"), List(<<Str("a"), Str("b")>>)>>))}
ExistsExprs == {Obj("exists", Bool("true")), Obj("notExists", Bool("true"))}

\* every FilterExpression variant of types/entity.ts, and plain values
FilterExprs ==
    {Obj(op, x) : op \in ValueOps, x \in Operands} \cup BetweenExprs \cup ExistsExprs
        \cup Operands \cup {Undef, Null}
\* the expressions used in filters of more than one entry
FewFilterExprs ==
    {Obj("equals", Str("x")), Obj("greaterThan", Num("0")), Obj("notExists", Bool("true")),
     Obj("between", List(<<Num("0"), Num("7")>>)), Num("7"), Str("")}
FilterAttrs == {"a", "a1", "length"}

\* the objects of n entries with distinct keys among attrs and values among vals
Objects(attrs, vals, n) ==
    {o \in [1..n -> [k : attrs, v : vals]] : \A i, j \in 1..n : i # j => o[i].k # o[j].k}

FilterInputs ==
    {Absent, Object(<<>>)}
        \cup {Object(o) : o \in Objects(FilterAttrs, FilterExprs, 1)}
        \cup {Object(o) : o \in UNION {Objects(FilterAttrs, FewFilterExprs, n) : n \in 2..MaxFilterLen}}

\* key-condition maps as resolveIndex builds them: the hash entry, then the range entry
HashConditions == {Str("user#1"), List(<<Str("user"), Num("1")>>), Obj("equals", Str("user#1"))}
RangeConditions ==
    {Str("a@b"), Obj("beginsWith", Str("a")), Obj("between", List(<<Str("a"), Str("b")>>)),
     Obj("lessThan", Num("0"))}
KeyConditionInputs ==
    {<<Entry("pk", h)>> : h \in HashConditions}
        \cup {<<Entry("pk", h), Entry("sk", r)>> : h \in {Str("user#1")}, r \in RangeConditions}

\* patches: defined values (the falsy ones too), null and undefined
PatchValues == {Str("v"), Str(""), Num("0"), Null, Undef}
PatchAttrs == {"name", "createdAt", "email"}
PatchInputs == UNION {Objects(PatchAttrs, PatchValues, n) : n \in 0..MaxPatchLen}
DoNotOverwriteInputs == {{}, {"createdAt"}, {"createdAt", "name"}}

ExprCalls ==
    {[op |-> "generateQueryExpression", key |-> k, filters |-> f] :
        k \in KeyConditionInputs, f \in FilterInputs}
    \cup {[op |-> "generateUpdateExpression", patch |-> p, doNotOverwrite |-> d] :
        p \in PatchInputs, d \in DoNotOverwriteInputs}

----------------------------------------------------------------------------
(* The table of the test suites: src/unnamed/part_005 lines 7-19 *)

TableName == "test"
TableIndexes ==
    [table |-> [hashKey |-> "pk", rangeKey |-> "sk"],
     gsi1 |-> [hashKey |-> "type", rangeKey |-> "sk"]]

NoOutcome == [st |-> "none"]
NoFrame == [items |-> <<>>, options |-> [def |-> FALSE], replies |-> <<>>]
\* the table holds no item under the key
NoItem == [def |-> FALSE]
\* the caller holds no instance
NoInstance == [def |-> FALSE]

----------------------------------------------------------------------------
(* src/src/parsing.ts: key resolution *)

\* errors: the class thrown and what the message carries
TurbineError(code, a, b) == [name |-> "TurbineError", code |-> code, a |-> a, b |-> b]
\* the message without the table name: `Index '${indexName}' is not defined`
IndexNotDefined_NoTable(indexName) == TurbineError("IndexNotDefined", indexName, "")
\* `Index with name "${indexName}" is not defined in table "${name}"`
IndexNotDefined(indexName) == TurbineError("IndexNotDefined", indexName, TableName)
\* `No value found for hash key "${index.hashKey}"`
NoHashKey(hashKey) == TurbineError("NoHashKeyValue", hashKey, "")
\* "When using `get`, the only valid key expression is `equals`."
InvalidKeyExpression == TurbineError("InvalidKeyExpression", "", "")
\* `"equals" in null`
TypeError == [name |-> "TypeError", code |-> "InOperatorOnNull", a |-> "", b |-> ""]
\* the rejection of schema.parseAsync
ZodError == [name |-> "ZodError", code |-> "Validation", a |-> "", b |-> ""]
\* a failure of the storage call itself
StorageError == [name |-> "StorageError", code |-> "Storage", a |-> "", b |-> ""]
\* a second failure of the storage call, to tell errors apart
ThrottlingError == [name |-> "StorageError", code |-> "Throttling", a |-> "", b |-> ""]

Throw(e) == [ok |-> FALSE, error |-> e]

\* key[name] of a caller's object (a function from its property names)
Field(key, name) == IF name \in DOMAIN key THEN key[name] ELSE Undef

\* the reduce step taking the operand of any expression object
KeyValueOf_Unwrap(v) ==
    IF v.t = "null" THEN Throw(TypeError)
    ELSE IF v.t = "object" THEN [ok |-> TRUE, value |-> buildValue(v.l[1])]
    ELSE [ok |-> TRUE, value |-> buildValue(v)]

\* one step of the reduce of resolveKeyValues
KeyValueOf(v) ==
    IF v.t = "null" THEN Throw(TypeError)
    ELSE IF v.t = "object" THEN
        IF v.s = "equals" THEN [ok |-> TRUE, value |-> buildValue(v.l[1])]
        ELSE Throw(InvalidKeyExpression)
    ELSE [ok |-> TRUE, value |-> buildValue(v)]

\* resolveKeyValues: the Key of a single-item request; throws at the first entry
\* that is an object without `equals`
resolveKeyValues(key) ==
    LET bad == {i \in DOMAIN key : ~KeyValueOf(key[i].v).ok}
    IN  IF bad # {} THEN KeyValueOf(key[CHOOSE i \in bad : \A j \in bad : i <= j].v)
        ELSE [ok |-> TRUE,
              value |-> [x \in Keys(key) |-> KeyValueOf(Lookup(key, x)).value]]

\* resolvedKey without the test for an undefined range value
resolvedKey_AlwaysRange(index, key) ==
    <<Entry(index.hashKey, key[index.hashKey])>> \o
        (IF index.rangeKey # ""
         THEN <<Entry(index.rangeKey, Field(key, index.rangeKey))>>
         ELSE <<>>)

\* the object resolveIndex builds: the hash entry and, when the index has a range
\* key and the caller's object a value other than undefined for it, the range entry
resolvedKey(index, key) ==
    <<Entry(index.hashKey, key[index.hashKey])>> \o
        (IF index.rangeKey # "" /\ Field(key, index.rangeKey) # Undef
         THEN <<Entry(index.rangeKey, key[index.rangeKey])>>
         ELSE <<>>)

\* resolveIndex: the index named by key.index (default "table") and the
\* key-condition entries of its hash key and, if given, its range key
resolveIndex(key) ==
    LET indexName == IF Truthy(Field(key, "index")) THEN Field(key, "index").s ELSE "table"
    IN  IF indexName \notin DOMAIN indexes THEN Throw(IndexNotDefined(indexName))
        ELSE LET index == indexes[indexName]
             IN IF \/ index.hashKey \notin DOMAIN key
                   \/ key[index.hashKey] = Null
                   \/ key[index.hashKey] = Undef
                THEN Throw(NoHashKey(index.hashKey))
                ELSE [ok |-> TRUE, IndexName |-> indexName, Key |-> resolvedKey(index, key)]

----------------------------------------------------------------------------
(* The entity of the test suites (src/unnamed/part_005 lines 21-32), with   *)
(* two optional fields; all fields are strings                             *)

Schema ==
    <<[name |-> "id", type |-> "string", optional |-> FALSE, nullable |-> FALSE],
      [name |-> "email", type |-> "string", optional |-> FALSE, nullable |-> FALSE],
      [name |-> "name", type |-> "string", optional |-> TRUE, nullable |-> TRUE],
      [name |-> "createdAt", type |-> "string", optional |-> TRUE, nullable |-> FALSE]>>

\* a key rule (KeyDefinition): a constant primitive or list, or a function of the
\* data that returns one part or the list of its parts; a part is a literal or a
\* field of the data
Constant(value) == [fn |-> FALSE, value |-> value]
Function(parts, list) == [fn |-> TRUE, parts |-> parts, list |-> list]
Literal(v) == [lit |-> TRUE, v |-> v]
FieldOf(name) == [lit |-> FALSE, name |-> name]

\* keys: { type: () => "user", pk: (user) => ["user", user.id], sk: (user) => user.email }
UserKeys ==
    <<Entry("type", Function(<<Literal(Str("user"))>>, FALSE)),
      Entry("pk", Function(<<Literal(Str("user")), FieldOf("id")>>, TRUE)),
      Entry("sk", Function(<<FieldOf("email")>>, FALSE))>>
KeyNames == [i \in DOMAIN UserKeys |-> UserKeys[i].k]
\* the definition the entity operations below close over
UserDefinition == [schema |-> Schema, keys |-> UserKeys]

\* let value = definition.keys[key]; if (typeof value === "function") value = value(data)
KeyRule(rule, data) ==
    LET Part(part) == IF part.lit THEN part.v ELSE Lookup(data, part.name)
    IN IF ~rule.fn THEN rule.value
       ELSE IF rule.list THEN List([i \in DOMAIN rule.parts |-> Part(rule.parts[i])])
       ELSE Part(rule.parts[1])

FieldValid(f, v, partial) ==
    \/ v.t = f.type
    \/ v.t = "null" /\ f.nullable
    \/ v.t = "undefined" /\ (f.optional \/ partial)

\* schema.parseAsync / schema.partial().parseAsync: the known fields, in schema
\* order, unknown properties stripped; rejects on a missing or ill-typed field
SchemaParse(schema, data, partial) ==
    IF \E i \in DOMAIN schema : ~FieldValid(schema[i], Field(data, schema[i].name), partial)
    THEN Throw(ZodError)
    ELSE LET present == SelectSeq(schema, LAMBDA f : Field(data, f.name) # Undef)
         IN [ok |-> TRUE,
             value |-> [i \in DOMAIN present |-> Entry(present[i].name, data[present[i].name])]]

\* the value parseKeys stores for one key, undefined if it stores none
ParsedKey(rule, data) ==
    LET value == KeyRule(rule, data)
        invalid == IsArray(value) /\ \E i \in DOMAIN value.l : value.l[i] = Undef
        joined == IF IsArray(value) THEN Str(Join(value.l, "#")) ELSE value
    IN IF ~invalid /\ joined # Undef THEN joined ELSE Undef

\* parseKeys: the composed key attributes, in the order of definition.keys
parseKeys(definition, data) ==
    LET stored == SelectSeq(definition.keys, LAMBDA e : ParsedKey(e.v, data) # Undef)
    IN [i \in DOMAIN stored |-> Entry(stored[i].k, ParsedKey(stored[i].v, data))]

\* { ...a, ...b } on ordered objects: a's entries with b's values, then b's new entries
SpreadObj(a, b) ==
    [i \in DOMAIN a |-> IF Has(b, a[i].k) THEN Entry(a[i].k, Lookup(b, a[i].k)) ELSE a[i]]
        \o SelectSeq(b, LAMBDA e : ~Has(a, e.k))

\* { ...parsedData, ...parseKeys(definition, parsedData) }
Expanded(definition, parsedData) ==
    Bind(parseKeys(definition, parsedData), LAMBDA keys : SpreadObj(parsedData, keys))

\* expandPartialPayload with a partial schema that gives a field the patch lacks
\* the value null
expandPartialPayload_Fill(definition, data) ==
    Bind(SchemaParse(definition.schema,
                     [x \in DOMAIN data \cup {"name"} |-> IF x \in DOMAIN data THEN data[x] ELSE Null],
                     TRUE), LAMBDA parsed :
        IF ~parsed.ok THEN parsed
        ELSE [ok |-> TRUE, value |-> Expanded(definition, parsed.value)])

\* expandPayload / expandPartialPayload
expandPayload(definition, data) ==
    Bind(SchemaParse(definition.schema, data, FALSE), LAMBDA parsed :
        IF ~parsed.ok THEN parsed
        ELSE [ok |-> TRUE, value |-> Expanded(definition, parsed.value)])
expandPartialPayload(definition, data) ==
    Bind(SchemaParse(definition.schema, data, TRUE), LAMBDA parsed :
        IF ~parsed.ok THEN parsed
        ELSE [ok |-> TRUE, value |-> Expanded(definition, parsed.value)])

\* an ordered object as the map of its properties
AsMap(o) == [x \in Keys(o) |-> Lookup(o, x)]

\* parseInstance: the parsed fields of a raw item, with the update capability
\* that closes over the raw input
parseInstance(definition, input) ==
    Bind(SchemaParse(definition.schema, input, FALSE), LAMBDA parsed :
        IF ~parsed.ok THEN parsed
        ELSE [ok |-> TRUE, value |-> [fields |-> AsMap(parsed.value), input |-> input]])

----------------------------------------------------------------------------
(* src/src/entity.ts: what each operation does up to its storage call *)

Reject(e) == [kind |-> "reject", error |-> e]
Send(req) == [kind |-> "send", req |-> req]

\* query options: absent, or { filters, ...dynamoDbOptions }
NoOptions == [def |-> FALSE, filters |-> Absent, rest |-> EmptyMap]
Options(filters, rest) == [def |-> TRUE, filters |-> filters, rest |-> rest]

\* the lines every single-item operation starts with:
\* key.index = "table"; const [, Key] = resolveIndex(definition, key)
ForceTable(key) == MapSet(key, "index", Str("table"))

\* entity.get up to definition.table.get
getStart(key) ==
    LET r == resolveIndex(ForceTable(key))
    IN IF ~r.ok THEN Reject(r.error)
       ELSE LET Key == resolveKeyValues(r.Key)
            IN IF ~Key.ok THEN Reject(Key.error)
               ELSE Send([cmd |-> "get", Key |-> Key.value])

\* entity.delete up to definition.table.delete
deleteStart(key) ==
    LET r == resolveIndex(ForceTable(key))
    IN IF ~r.ok THEN Reject(r.error)
       ELSE LET Key == resolveKeyValues(r.Key)
            IN IF ~Key.ok THEN Reject(Key.error)
               ELSE Send([cmd |-> "delete", Key |-> Key.value])

\* the payload as expanded, no field deleted
WithoutKeyFields_Keep(payload, Key) == payload

\* the loop of entity.update deleting the fields of Key from the payload
WithoutKeyFields(payload, Key) == SelectSeq(payload, LAMBDA e : ~Has(Key, e.k))

\* entity.update up to definition.table.update; the request is
\* { Key, ...generateUpdateExpression(payload, ["createdAt"]), ReturnValues }
updateStart(definition, key, patch) ==
    Bind(resolveIndex(ForceTable(key)), LAMBDA r :
        IF ~r.ok THEN Reject(r.error)
        ELSE Bind(expandPartialPayload(definition, patch), LAMBDA expanded :
            IF ~expanded.ok THEN Reject(expanded.error)
            ELSE Bind(resolveKeyValues(r.Key), LAMBDA Key :
                IF ~Key.ok THEN Reject(Key.error)
                ELSE Send([cmd |-> "update", Key |-> Key.value, ReturnValues |-> "ALL_NEW"]
                          @@ generateUpdateExpression(
                                WithoutKeyFields(expanded.value, r.Key), {"createdAt"})))))

\* entity.put up to definition.table.put
putStart(definition, data) ==
    LET payload == expandPayload(definition, data)
    IN IF ~payload.ok THEN Reject(payload.error)
       ELSE Send([cmd |-> "put", Item |-> AsMap(payload.value)])

\* entity.query up to definition.table.query; the request is
\* { ...query, IndexName, ...dynamoDbOptions }
queryStart(key, options) ==
    Bind(resolveIndex(key), LAMBDA r :
        IF ~r.ok THEN Reject(r.error)
        ELSE Send([cmd |-> "query",
                   IndexName |-> IF r.IndexName = "table" THEN Undef ELSE Str(r.IndexName),
                   options |-> options.rest]
                  @@ generateQueryExpression(r.Key, options.filters)))

\* the options entity.queryOne passes on: { Limit: 1, ...options }
queryOneOptions(options) ==
    Options(options.filters, Spread([x \in {"Limit"} |-> Num("1")], options.rest))

\* a next closure that replays the options as they were
nextOptions_SameStart(options, LastEvaluatedKey) == options

\* the options of the next closure: { ...options, ExclusiveStartKey: LastEvaluatedKey }
nextOptions(options, LastEvaluatedKey) ==
    Options(options.filters, MapSet(options.rest, "ExclusiveStartKey", LastEvaluatedKey))

\* the instances of all items but the last
ParseAll_DropLast(items) ==
    Bind([i \in 1 .. (Len(items) - 1) |-> parseInstance(UserDefinition, items[i])],
         LAMBDA parsed :
            IF \E i \in DOMAIN parsed : ~parsed[i].ok
            THEN parsed[CHOOSE i \in DOMAIN parsed : ~parsed[i].ok]
            ELSE [ok |-> TRUE, value |-> [i \in DOMAIN parsed |-> parsed[i].value]])

\* Promise.all(items.map(parseInstance)): the instances, or the first rejection
ParseAll(items) ==
    Bind([i \in DOMAIN items |-> parseInstance(UserDefinition, items[i])], LAMBDA parsed :
        IF \E i \in DOMAIN parsed : ~parsed[i].ok
        THEN parsed[CHOOSE i \in DOMAIN parsed :
                        ~parsed[i].ok /\ \A j \in DOMAIN parsed : ~parsed[j].ok => i <= j]
        ELSE [ok |-> TRUE, value |-> [i \in DOMAIN parsed |-> parsed[i].value]])

\* parsePagedResult setting the next capability whether or not there is a cursor
parsePagedResult_AlwaysNext(items, lastEvaluatedKey, next) ==
    Bind(ParseAll(items), LAMBDA output :
       IF ~output.ok THEN output
       ELSE [ok |-> TRUE,
             value |-> [items |-> output.value,
                        lastEvaluatedKey |-> IF Truthy(lastEvaluatedKey)
                                             THEN lastEvaluatedKey ELSE Undef,
                        next |-> next]])

\* parsePagedResult: the cursor and the next capability are set only with a cursor
parsePagedResult(items, lastEvaluatedKey, next) ==
    Bind(ParseAll(items), LAMBDA output :
       IF ~output.ok THEN output
       ELSE [ok |-> TRUE,
             value |-> IF Truthy(lastEvaluatedKey)
                       THEN [items |-> output.value, lastEvaluatedKey |-> lastEvaluatedKey,
                             next |-> next]
                       ELSE [items |-> output.value, lastEvaluatedKey |-> Undef,
                             next |-> [def |-> FALSE]]])

----------------------------------------------------------------------------
(* The expression generators applied to every input *)

InitExpr ==
    /\ pc = "idle"
    /\ call \in ExprCalls
    /\ sent = <<>>
    /\ outcome = NoOutcome
    /\ frame = NoFrame
    /\ indexes = TableIndexes
    /\ store = NoItem /\ updates = <<>> /\ applied = <<>>
    /\ entity = [definition |-> UserDefinition] /\ instance = NoInstance

ApplyQueryExpression ==
    /\ pc = "idle"
    /\ call.op = "generateQueryExpression"
    /\ outcome' = [st |-> "ok", value |-> generateQueryExpression(call.key, call.filters)]
    /\ pc' = "done"
    /\ UNCHANGED <<call, sent, frame, table>>

ApplyUpdateExpression ==
    /\ pc = "idle"
    /\ call.op = "generateUpdateExpression"
    /\ outcome' = [st |-> "ok",
                   value |-> generateUpdateExpression(call.patch, call.doNotOverwrite)]
    /\ pc' = "done"
    /\ UNCHANGED <<call, sent, frame, table>>

NextExpr == ApplyQueryExpression \/ ApplyUpdateExpression

SpecExpr == InitExpr /\ [][NextExpr]_vars

QueryDone == pc = "done" /\ call.op = "generateQueryExpression"
UpdateDone == pc = "done" /\ call.op = "generateUpdateExpression"

\* C1: placeholder completeness. In every generated query expression the #tokens of
\* the key-condition and filter expressions are exactly the keys of
\* ExpressionAttributeNames and the :tokens exactly the keys of
\* ExpressionAttributeValues; likewise for the UpdateExpression of every patch.
C1_PlaceholderCompleteness ==
    /\ QueryDone =>
        LET q == outcome.value
            toks == q.KeyConditionExpression.toks \o q.FilterExpression.toks
        IN /\ NameTokens(toks) = DOMAIN q.ExpressionAttributeNames
           /\ ValueTokens(toks) = DOMAIN q.ExpressionAttributeValues
    /\ UpdateDone =>
        LET u == outcome.value
        IN /\ NameTokens(u.UpdateExpression.toks) = DOMAIN u.ExpressionAttributeNames
           /\ ValueTokens(u.UpdateExpression.toks) = DOMAIN u.ExpressionAttributeValues

\* a patch with a set, a removed and an undefined attribute has been translated, or
\* a query with a between key condition and a value-less filter clause
C1_Witness ==
    \/ /\ UpdateDone
       /\ \E i, j \in DOMAIN call.patch : call.patch[i].v = Null /\ call.patch[j].v = Str("v")
       /\ call.doNotOverwrite # {}
       /\ Cardinality(DOMAIN outcome.value.ExpressionAttributeNames) = 2
    \/ /\ QueryDone
       /\ Len(call.key) = 2 /\ call.key[2].v.s = "between"
       /\ call.filters.def /\ Len(call.filters.ent) = 2
       /\ Cardinality(DOMAIN outcome.value.ExpressionAttributeValues) = 4

\* the clause the grammar gives one entry: the operator of its variant (a plain
\* value is an equality), and the value placeholders it binds
C9_Symbol(op) ==
    CASE op = "equals" -> "=" [] op = "notEquals" -> "<>" [] op = "greaterThan" -> ">"
      [] op = "lessThan" -> "<" [] op = "greaterThanOrEquals" -> ">="
      [] op = "lessThanOrEquals" -> "<="
C9_Function(op) ==
    CASE op = "beginsWith" -> "begins_with" [] op = "contains" -> "contains"
      [] op = "notContains" -> "not contains" [] op = "exists" -> "attribute_exists"
      [] op = "notExists" -> "attribute_not_exists"
C9_Operand(x) == IF x.t = "array" THEN Str(Join(x.l, "#")) ELSE x
C9_Clause(prefix, e) ==
    LET n == NameTok("#" \o prefix \o "_" \o e.k)
        p == ":" \o prefix \o "_" \o e.k
        op == e.v.s
    IN  IF e.v.t # "object" THEN <<n, Text(" = "), ValueTok(p)>>
        ELSE IF op \in {"exists", "notExists"} THEN
            <<Text(C9_Function(op) \o "("), n, Text(")")>>
        ELSE IF op = "between" THEN
            <<n, Text(" BETWEEN "), ValueTok(p \o "1"), Text(" AND "), ValueTok(p \o "2")>>
        ELSE IF op \in {"beginsWith", "contains", "notContains"} THEN
            <<Text(C9_Function(op) \o "("), n, Text(", "), ValueTok(p), Text(")")>>
        ELSE <<n, Text(" " \o C9_Symbol(op) \o " "), ValueTok(p)>>
C9_Bindings(prefix, e) ==
    LET p == ":" \o prefix \o "_" \o e.k
    IN  IF e.v.t # "object" THEN {<<p, C9_Operand(e.v)>>}
        ELSE IF e.v.s \in {"exists", "notExists"} THEN {}
        ELSE IF e.v.s = "between" THEN
            {<<p \o "1", C9_Operand(e.v.l[1].l[1])>>, <<p \o "2", C9_Operand(e.v.l[1].l[2])>>}
        ELSE {<<p, C9_Operand(e.v.l[1])>>}
C9_Expression(prefix, ent) ==
    Render(JoinToks([i \in DOMAIN ent |-> C9_Clause(prefix, ent[i])], " AND "))
C9_Holds(prefix, ent, expression, values) ==
    /\ expression.def
    /\ Render(expression.toks) = C9_Expression(prefix, ent)
    /\ \A i \in DOMAIN ent : \A b \in C9_Bindings(prefix, ent[i]) :
            b[1] \in DOMAIN values /\ values[b[1]] = b[2]

\* C9: clause grammar. Every entry of the key condition and of the filter is
\* rendered with the operator of its variant, its value placeholder bound to the
\* operand itself (lists joined with "#"), exists/notExists without a value
\* placeholder, the clauses joined with " AND ", under the key_ / filter_ prefix.
C9_ClauseGrammar ==
    QueryDone =>
        LET q == outcome.value
        IN /\ C9_Holds("key", call.key, q.KeyConditionExpression, q.ExpressionAttributeValues)
           /\ (call.filters.def /\ call.filters.ent # <<>>) =>
                C9_Holds("filter", call.filters.ent, q.FilterExpression,
                         q.ExpressionAttributeValues)

\* the position of the "REMOVE " keyword of an update expression, past its end if none
C10_RemoveAt(toks) ==
    IF \E i \in DOMAIN toks : toks[i] = Text("REMOVE ")
    THEN CHOOSE i \in DOMAIN toks : toks[i] = Text("REMOVE ")
    ELSE Len(toks) + 1
C10_SetGroup(toks) == {i \in DOMAIN toks : i < C10_RemoveAt(toks)}
C10_RemoveGroup(toks) == {i \in DOMAIN toks : i > C10_RemoveAt(toks)}
C10_At(toks, i, piece) == i \in DOMAIN toks /\ toks[i] = piece
\* a SET clause of attribute a starts at position i
C10_SetClauseAt(toks, i, a, guarded) ==
    /\ C10_At(toks, i, NameTok("#" \o a)) /\ C10_At(toks, i + 1, Text(" = "))
    /\ IF guarded
       THEN /\ C10_At(toks, i + 2, Text("if_not_exists("))
            /\ C10_At(toks, i + 3, NameTok("#" \o a))
            /\ C10_At(toks, i + 4, Text(", "))
            /\ C10_At(toks, i + 5, ValueTok(":" \o a))
            /\ C10_At(toks, i + 6, Text(")"))
       ELSE C10_At(toks, i + 2, ValueTok(":" \o a))
C10_Mentions(toks, group, a) ==
    {i \in group : toks[i] \in {NameTok("#" \o a), ValueTok(":" \o a)}}

\* C10: generateUpdateExpression partitions the patch. Every defined non-null
\* attribute has exactly one SET clause (guarded by if_not_exists exactly when it
\* is a do-not-overwrite name), every null attribute is named exactly once in the
\* REMOVE group, undefined attributes appear nowhere, SET comes first and an
\* empty group is omitted; the patch {createdAt: v, name: null} with
\* do-not-overwrite [createdAt] gives the expression of the specification.
C10_UpdatePartition ==
    UpdateDone =>
        LET toks == outcome.value.UpdateExpression.toks
            set == C10_SetGroup(toks)
            rem == C10_RemoveGroup(toks)
            valued == {i \in DOMAIN call.patch : call.patch[i].v \notin {Undef, Null}}
            nulls == {i \in DOMAIN call.patch : call.patch[i].v = Null}
        IN /\ \A i \in valued :
                LET a == call.patch[i].k
                    guarded == a \in call.doNotOverwrite
                IN /\ Cardinality({j \in set : C10_SetClauseAt(toks, j, a, guarded)}) = 1
                   /\ Cardinality(C10_Mentions(toks, set, a)) = IF guarded THEN 3 ELSE 2
                   /\ C10_Mentions(toks, rem, a) = {}
           /\ \A i \in nulls :
                /\ Cardinality(C10_Mentions(toks, rem, call.patch[i].k)) = 1
                /\ C10_Mentions(toks, set, call.patch[i].k) = {}
           /\ \A i \in DOMAIN call.patch :
                call.patch[i].v = Undef => C10_Mentions(toks, DOMAIN toks, call.patch[i].k) = {}
           /\ (valued # {}) <=> C10_At(toks, 1, Text("SET "))
           /\ (nulls # {}) <=> (C10_RemoveAt(toks) <= Len(toks))
           /\ (valued = {}) => C10_RemoveAt(toks) \in {1, Len(toks) + 1}
           /\ \A i \in DOMAIN toks : toks[i] = Text("SET ") => i = 1
           /\ (call.patch = <<Entry("createdAt", Str("v")), Entry("name", Null)>>
                    /\ call.doNotOverwrite = {"createdAt"}) =>
                Render(toks) = "SET #createdAt = if_not_exists(#createdAt, :createdAt) REMOVE #name"

\* the patch of the specification's scenario has been translated
C10_Witness ==
    /\ UpdateDone
    /\ call.patch = <<Entry("createdAt", Str("v")), Entry("name", Null)>>
    /\ call.doNotOverwrite = {"createdAt"}
    /\ Len(outcome.value.UpdateExpression.toks) = 11

----------------------------------------------------------------------------
(* Inputs of the entity operations *)

\* the most storage queries one queryAll is answered with a cursor for
MaxPages == 2
\* the most next() calls the caller chains after one query
MaxNextCalls == 2

\* a second table definition, whose primary index has no range key
HashOnlyIndexes ==
    [table |-> [hashKey |-> "pk", rangeKey |-> ""],
     gsi1 |-> [hashKey |-> "type", rangeKey |-> "sk"]]

\* a property the caller's object does not have
Missing == [t |-> "missing", s |-> "", l |-> <<>>]
MkObject(props) == [x \in {y \in DOMAIN props : props[y] # Missing} |-> props[x]]

NonEqualsOps == {"beginsWith", "between", "greaterThan", "lessThan", "greaterThanOrEquals",
                 "lessThanOrEquals"}
NonEquals(x) == {Obj(op, IF op = "between" THEN List(<<x, x>>) ELSE x) : op \in NonEqualsOps}
PkFew == {Missing, Str("user#1"), List(<<Str("user"), Str("1")>>)}
PkChoices ==
    PkFew \cup {Undef, Null, Obj("equals", Str("user#1")),
                Obj("equals", List(<<Str("user"), Str("1")>>))} \cup NonEquals(Str("user#1"))
SkFew == {Missing, Str("a@b"), Obj("beginsWith", Str("a"))}
SkChoices == SkFew \cup {Undef, Null, Obj("equals", Str("a@b"))} \cup NonEquals(Str("a"))
TypeChoices == {Missing, Str("user"), Obj("beginsWith", Str("u"))}
IndexChoices == {Missing, Str("table"), Str("gsi1"), Str("gsi2")}

\* every shape of hash and range entry on the default index, and every choice of
\* index with the plain ones
KeySpecs ==
    {MkObject([pk |-> c[1], sk |-> c[2], type |-> Missing, index |-> Missing]) :
        c \in (PkChoices \X SkFew) \cup (PkFew \X SkChoices)}
    \cup {MkObject([pk |-> p, sk |-> s, type |-> t, index |-> i]) :
            p \in PkFew, s \in {Missing, Str("a@b")}, t \in TypeChoices, i \in IndexChoices}

Patches ==
    {MkObject([name |-> Missing, createdAt |-> Missing, email |-> Missing]),
     MkObject([name |-> Str("n"), createdAt |-> Missing, email |-> Missing]),
     MkObject([name |-> Null, createdAt |-> Str("t"), email |-> Missing]),
     MkObject([name |-> Missing, createdAt |-> Missing, email |-> Str("c@d")]),
     MkObject([name |-> Missing, createdAt |-> Missing, email |-> Num("0")]),
     MkObject([id |-> Str("2"), createdAt |-> Missing, email |-> Str("c@d")])}

Records ==
    {MkObject([id |-> i, email |-> Str("a@b"), name |-> n, pk |-> k]) :
        i \in {Missing, Str("1")}, n \in {Missing, Str("n")}, k \in {Missing, Str("stale")}}

QueryOptions ==
    {NoOptions, Options(Absent, EmptyMap), Options(Object(<<>>), EmptyMap),
     Options(Object(<<Entry("name", Obj("notExists", Bool("true")))>>),
             [x \in {"Limit"} |-> Num("2")])}
\* the options queryOne and queryAll are called with
FewQueryOptions ==
    {NoOptions,
     Options(Object(<<Entry("name", Obj("notExists", Bool("true")))>>),
             [x \in {"Limit"} |-> Num("2")])}

\* what storage may hold and answer with: two items of the entity, one of another
Item1 == [pk |-> Str("user#1"), sk |-> Str("a@b"), type |-> Str("user"),
          id |-> Str("1"), email |-> Str("a@b")]
Item2 == [pk |-> Str("user#2"), sk |-> Str("c@d"), type |-> Str("user"),
          id |-> Str("2"), email |-> Str("c@d"), name |-> Str("n")]
OtherItem == [pk |-> Str("user#1"), sk |-> Str("post"), type |-> Str("post"),
              id |-> Str("9")]
RawItems == {Item1, Item2, OtherItem}
Pages == {<<>>, <<Item1, Item2>>, <<OtherItem>>}
Cursors == {Str("cursor1"), Str("cursor2")}

----------------------------------------------------------------------------
(* The entity operations *)

Init ==
    /\ pc = "idle"
    /\ call = [op |-> "none"]
    /\ sent = <<>>
    /\ outcome = NoOutcome
    /\ frame = NoFrame
    /\ indexes \in {TableIndexes, HashOnlyIndexes}
    /\ store = NoItem /\ updates = <<>> /\ applied = <<>>
    /\ entity = [definition |-> UserDefinition] /\ instance = NoInstance

\* the call runs to its rejection or to its storage request
Run(c, started, f) ==
    /\ call' = c
    /\ frame' = f
    /\ \E step \in {started} :
        IF step.kind = "reject"
        THEN /\ outcome' = [st |-> "rejected", error |-> step.error]
             /\ sent' = <<>>
             /\ pc' = "done"
        ELSE /\ outcome' = NoOutcome
             /\ sent' = <<step.req>>
             /\ pc' = "await"
    /\ UNCHANGED table
Start(c, started, f) == pc = "idle" /\ Run(c, started, f)

\* the locals of a query call: no item yet, its options, no answer received yet
Frame(options) == [items |-> <<>>, options |-> options, replies |-> <<>>]
\* the answer of storage joins the answers the call has received
Received(answer) == [frame EXCEPT !.replies = Append(@, answer)]

Resolve(v) ==
    /\ outcome' = [st |-> "resolved", value |-> v]
    /\ pc' = "done"
RejectWith(e) ==
    /\ outcome' = [st |-> "rejected", error |-> e]
    /\ pc' = "done"
\* resolve with a parsed instance, or reject with the parse error
Settle(parsing) ==
    \E parsed \in {parsing} :
        IF parsed.ok THEN Resolve(parsed.value) ELSE RejectWith(parsed.error)
Awaiting(op, cmd) == pc = "await" /\ call.op = op /\ sent[Len(sent)].cmd = cmd

Get ==
    /\ pc = "idle"
    /\ \E key \in KeySpecs :
        Start([op |-> "get", arg |-> key, key |-> ForceTable(key)], getStart(key), NoFrame)

GetReply ==
    /\ Awaiting("get", "get")
    /\ \E Item \in RawItems \cup {Undef} :
        IF Item = Undef THEN Resolve(Null) ELSE Settle(parseInstance(UserDefinition, Item))
    /\ UNCHANGED <<call, sent, frame, table>>

Delete ==
    /\ pc = "idle"
    /\ \E key \in KeySpecs :
        Start([op |-> "delete", arg |-> key, key |-> ForceTable(key)], deleteStart(key),
              NoFrame)

DeleteReply ==
    /\ Awaiting("delete", "delete")
    /\ Resolve(Undef)
    /\ UNCHANGED <<call, sent, frame, table>>

Update ==
    /\ pc = "idle"
    /\ \E key \in KeySpecs, patch \in Patches :
        Start([op |-> "update", arg |-> key, key |-> ForceTable(key), patch |-> patch],
              updateStart(UserDefinition, key, patch), NoFrame)

UpdateReply ==
    /\ Awaiting("update", "update")
    /\ \E Attributes \in RawItems : Settle(parseInstance(UserDefinition, Attributes))
    /\ UNCHANGED <<call, sent, frame, table>>

Put ==
    /\ pc = "idle"
    /\ \E data \in Records :
        Start([op |-> "put", data |-> data], putStart(UserDefinition, data), NoFrame)

PutReply ==
    /\ Awaiting("put", "put")
    /\ Settle(parseInstance(UserDefinition, sent[1].Item))
    /\ UNCHANGED <<call, sent, frame, table>>

Query ==
    /\ pc = "idle"
    /\ \E key \in KeySpecs, options \in QueryOptions :
        Start([op |-> "query", arg |-> key, key |-> key, options |-> options],
              queryStart(key, options), Frame(options))

QueryOne ==
    /\ pc = "idle"
    /\ \E key \in KeySpecs, options \in FewQueryOptions :
        Start([op |-> "queryOne", arg |-> key, key |-> key, options |-> options],
              queryStart(key, queryOneOptions(options)),
              Frame(queryOneOptions(options)))

QueryAll ==
    /\ pc = "idle"
    /\ \E key \in KeySpecs, options \in FewQueryOptions :
        Start([op |-> "queryAll", arg |-> key, key |-> key, options |-> options],
              queryStart(key, options), Frame(options))

\* what storage answers a query with; a queryAll gets at most MaxPages cursors
QueryAnswers ==
    {[Items |-> i, LastEvaluatedKey |-> c] :
        i \in Pages, c \in {Undef} \cup (IF Len(sent) <= MaxPages THEN Cursors ELSE {})}

\* the page entity.query resolves with for a storage answer
PageOf(answer) ==
    parsePagedResult(answer.Items, answer.LastEvaluatedKey,
        [def |-> TRUE, key |-> call.key,
         options |-> nextOptions(frame.options, answer.LastEvaluatedKey)])

QueryReply ==
    /\ Awaiting("query", "query")
    /\ \E answer \in QueryAnswers :
        /\ Settle(PageOf(answer))
        /\ frame' = Received(answer)
    /\ UNCHANGED <<call, sent, table>>

\* the pages with a next capability the caller holds: the one the call resolved
\* with and the one whose next() started the call; `request` remembers the
\* request that was answered with the page
HeldPages ==
    (IF outcome.value.next.def
     THEN {[lastEvaluatedKey |-> outcome.value.lastEvaluatedKey,
            next |-> outcome.value.next, request |-> sent[Len(sent)]]}
     ELSE {})
    \cup (IF "page" \in DOMAIN call THEN {call.page} ELSE {})
\* the number of next() calls that led to the running call
Nexts == IF "nexts" \in DOMAIN call THEN call.nexts ELSE 0

\* the caller calls next() of a page it holds:
\* entity.query(key, { ...options, ExclusiveStartKey: LastEvaluatedKey })
PageNext ==
    /\ pc = "done" /\ call.op = "query" /\ outcome.st = "resolved"
    /\ Nexts < MaxNextCalls
    /\ \E page \in HeldPages :
        Run([op |-> "query", arg |-> page.next.key, key |-> page.next.key,
             options |-> page.next.options, page |-> page, nexts |-> Nexts + 1],
            queryStart(page.next.key, page.next.options), Frame(page.next.options))

QueryOneReply ==
    /\ Awaiting("queryOne", "query")
    /\ \E answer \in QueryAnswers : \E page \in {PageOf(answer)} :
        /\ IF ~page.ok THEN RejectWith(page.error)
           ELSE Resolve(IF page.value.items # <<>> THEN page.value.items[1] ELSE Null)
        /\ frame' = Received(answer)
    /\ UNCHANGED <<call, sent, table>>

\* one turn of the loop of entity.queryAll: the awaited page arrives, its items are
\* pushed, and either the loop ends or result.next() issues the next query
QueryAllReply ==
    /\ Awaiting("queryAll", "query")
    /\ \E answer \in QueryAnswers : \E page \in {PageOf(answer)} :
        IF ~page.ok THEN
            /\ RejectWith(page.error)
            /\ frame' = Received(answer)
            /\ UNCHANGED sent
        ELSE \E items \in {frame.items \o page.value.items} :
            IF ~page.value.next.def THEN
                /\ Resolve(items)
                /\ frame' = [Received(answer) EXCEPT !.items = items]
                /\ UNCHANGED sent
            ELSE \E step \in {queryStart(page.value.next.key, page.value.next.options)} :
                /\ frame' = [items |-> items, options |-> page.value.next.options,
                             replies |-> Append(frame.replies, answer)]
                /\ IF step.kind = "reject"
                   THEN RejectWith(step.error) /\ UNCHANGED sent
                   ELSE /\ sent' = Append(sent, step.req)
                        /\ UNCHANGED <<pc, outcome>>
    /\ UNCHANGED <<call, table>>

\* the errors a storage call fails with
StorageErrors == {StorageError, ThrottlingError}
\* a failure as the answer of storage to a request
Failure(e) == [failed |-> TRUE, error |-> e]

\* an operation that settles a failed page fetch with the items it has so far
Propagate_Partial(e, items) ==
    IF items # <<>> THEN [st |-> "resolved", value |-> items]
    ELSE [st |-> "rejected", error |-> e]

\* an awaited storage call rejects inside an async function that has no try/catch:
\* the function rejects with the same error, whatever its locals hold
Propagate(e, items) == [st |-> "rejected", error |-> e]

\* the storage call of any operation fails: the rejection propagates
StorageFailure ==
    /\ pc = "await"
    /\ \E e \in StorageErrors :
        /\ outcome' = Propagate(e, frame.items)
        /\ frame' = Received(Failure(e))
    /\ pc' = "done"
    /\ UNCHANGED <<call, sent, table>>

\* the caller takes the result; the next call may start
Return ==
    /\ pc = "done"
    /\ pc' = "idle"
    /\ call' = [op |-> "none"]
    /\ sent' = <<>>
    /\ outcome' = NoOutcome
    /\ frame' = NoFrame
    /\ UNCHANGED table

Next ==
    \/ Get \/ GetReply \/ Delete \/ DeleteReply \/ Update \/ UpdateReply
    \/ Put \/ PutReply \/ Query \/ QueryReply \/ PageNext \/ QueryOne \/ QueryOneReply
    \/ QueryAll \/ QueryAllReply \/ StorageFailure \/ Return

Spec == Init /\ [][Next]_vars

----------------------------------------------------------------------------
(* Properties of the entity operations *)

QueryOps == {"query", "queryOne", "queryAll"}
SingleOps == {"get", "update", "delete"}
\* Object.keys(indexes): the indexes in declaration order
IndexOrder == <<"table", "gsi1">>
\* the key spec gives the attribute a value
HasValue(key, attr) == Field(key, attr) \notin {Undef, Null}
\* an expression object of a variant other than equals
IsNonEquals(v) == v.t = "object" /\ v.s \in NonEqualsOps
\* the index a key spec names, "table" if it names none
ActingIndex(key) == IF Truthy(Field(key, "index")) THEN key["index"].s ELSE "table"
RejectedBy(names) ==
    pc = "done" /\ outcome.st = "rejected" /\ outcome.error.name \in names /\ sent = <<>>

\* C2: index auto-detection. A query whose key spec has no `index` field is answered
\* from the first index, in declaration order, whose hash-key attribute the key
\* spec gives a value: the request names that index.
C2_AutoDetection ==
    (call.op \in QueryOps /\ "index" \notin DOMAIN call.arg
        /\ \E i \in DOMAIN IndexOrder : HasValue(call.arg, indexes[IndexOrder[i]].hashKey)) =>
        LET first == CHOOSE i \in DOMAIN IndexOrder :
                        /\ HasValue(call.arg, indexes[IndexOrder[i]].hashKey)
                        /\ \A j \in 1..(i - 1) : ~HasValue(call.arg, indexes[IndexOrder[j]].hashKey)
        IN /\ sent # <<>>
           /\ sent[1].IndexName = IF IndexOrder[first] = "table" THEN Undef
                                  ELSE Str(IndexOrder[first])

C4_BadEntry ==
    \/ IsNonEquals(Field(call.arg, indexes.table.hashKey))
    \/ indexes.table.rangeKey # "" /\ IsNonEquals(Field(call.arg, indexes.table.rangeKey))

\* C4 as stated: get, update and delete with a non-equals expression on the hash or
\* range key fail with the invalid-key-expression error, without a storage request.
C4_InvalidKeyExpression ==
    (call.op \in SingleOps /\ C4_BadEntry) =>
        RejectedBy({"TurbineError"}) /\ outcome.error = InvalidKeyExpression

\* C4 as amended: such a call is rejected with an engine error and issues no storage
\* request; the error is the invalid-key-expression error whenever the hash key has
\* a value and, for update, the patch passes validation (a missing hash key and an
\* invalid patch are reported first).
C4_InvalidKeyExpressionAmended ==
    (call.op \in SingleOps /\ C4_BadEntry) =>
        /\ RejectedBy({"TurbineError", "ZodError"})
        /\ (HasValue(call.arg, indexes.table.hashKey)
                /\ (call.op = "update" => SchemaParse(Schema, call.patch, TRUE).ok)) =>
            outcome.error = InvalidKeyExpression
        /\ ~HasValue(call.arg, indexes.table.hashKey) =>
            outcome.error = NoHashKey(indexes.table.hashKey)

\* update has been called with a valid patch, a plain hash key and a between
\* expression on the range key, and has rejected
C4_Witness ==
    /\ call.op = "update" /\ SchemaParse(Schema, call.patch, TRUE).ok
    /\ indexes.table.rangeKey = "sk"
    /\ Field(call.arg, "pk") = Str("user#1")
    /\ Field(call.arg, "sk").s = "between"
    /\ outcome.st = "rejected" /\ outcome.error = InvalidKeyExpression

\* C5: get, update and delete address the `table` index with an equality value for
\* its hash key and, when it defines one, its range key: a key spec that omits the
\* range key is rejected by the engine and no hash-only Key is sent.
C5_RangeKeyRequired ==
    (call.op \in SingleOps) =>
        /\ \A i \in DOMAIN sent :
            /\ indexes.table.hashKey \in DOMAIN sent[i].Key
            /\ DOMAIN sent[i].Key \subseteq {indexes.table.hashKey, indexes.table.rangeKey}
        /\ (indexes.table.rangeKey # "" /\ Field(call.arg, indexes.table.rangeKey) = Undef) =>
            RejectedBy({"TurbineError", "ZodError"})

\* C6: a query whose hash-key entry on the acting index is a non-equals expression is
\* rejected with an engine error, and no key condition is sent for it.
C6_HashKeyEqualityOnly ==
    (call.op \in QueryOps /\ ActingIndex(call.arg) \in DOMAIN indexes
        /\ IsNonEquals(Field(call.arg, indexes[ActingIndex(call.arg)].hashKey))) =>
        RejectedBy({"TurbineError"})

\* the entries resolution keeps of a key spec: hash, and range if supplied
C7_Expected(key) ==
    LET index == indexes[ActingIndex(key)]
    IN <<Entry(index.hashKey, key[index.hashKey])>> \o
        (IF index.rangeKey # "" /\ index.rangeKey \in DOMAIN key /\ key[index.rangeKey] # Undef
         THEN <<Entry(index.rangeKey, key[index.rangeKey])>> ELSE <<>>)
\* the names a request declares for key-condition attributes
C7_KeyNames(req) ==
    {req.ExpressionAttributeNames[x] :
        x \in {y \in DOMAIN req.ExpressionAttributeNames :
                    \E a \in {"pk", "sk", "type", "index"} : y = "#key_" \o a}}

\* C7: a query whose key spec gives the hash key of the acting index a value is
\* resolved, with or without the range key: the request is issued, and its key
\* condition holds the hash entry, the range entry exactly when it was supplied,
\* and no other attribute of the key spec.
C7_RangeKeyOptional ==
    (call.op \in QueryOps /\ ActingIndex(call.arg) \in DOMAIN indexes
        /\ HasValue(call.arg, indexes[ActingIndex(call.arg)].hashKey)) =>
        /\ resolveIndex(call.arg).ok
        /\ resolveIndex(call.arg).Key = C7_Expected(call.arg)
        /\ sent # <<>>
        /\ \A i \in DOMAIN sent :
            C7_KeyNames(sent[i]) = {C7_Expected(call.arg)[j].k : j \in DOMAIN C7_Expected(call.arg)}

\* a query on gsi1 by type alone, its key spec also holding pk, has been sent
C7_Witness ==
    /\ call.op = "query" /\ Field(call.arg, "index") = Str("gsi1")
    /\ "pk" \in DOMAIN call.arg /\ "sk" \notin DOMAIN call.arg
    /\ pc = "await"
    /\ DOMAIN sent[1].ExpressionAttributeNames = {"#key_type"}

\* C8: a query without a filter spec, or with an empty one, sends no FilterExpression.
C8_NoEmptyFilterExpression ==
    (call.op \in QueryOps /\ (~call.options.filters.def \/ call.options.filters.ent = <<>>)) =>
        \A i \in DOMAIN sent : ~sent[i].FilterExpression.def

\* the placeholders #a and :a of an attribute occur nowhere in an update request
C11_Unmentioned(req, a) ==
    /\ ("#" \o a) \notin DOMAIN req.ExpressionAttributeNames
    /\ (":" \o a) \notin DOMAIN req.ExpressionAttributeValues
    /\ \A j \in DOMAIN req.UpdateExpression.toks :
        req.UpdateExpression.toks[j].s \notin {"#" \o a, ":" \o a}

----------------------------------------------------------------------------
(* Concurrent entity.update calls on one item. Each call computes its      *)
(* request (entity.ts lines 35-50); storage applies the requests one at a  *)
(* time, in any order, each atomically (UpdateItem); each call then parses *)
(* the returned attributes (entity.ts line 52).                            *)

\* the most update calls in flight together
MaxUpdaters == 2
Updaters == 1 .. MaxUpdaters

\* the createdAt each caller carries
Stamp(p) == Str(<<"t1", "t2", "t3", "t4">>[p])
\* two spellings of the key of the same item
ItemKeys ==
    {MkObject([pk |-> Str("user#1"), sk |-> Str("a@b")]),
     MkObject([pk |-> List(<<Str("user"), Str("1")>>), sk |-> Obj("equals", Str("a@b"))])}
UpdatePatches(p) ==
    {MkObject([createdAt |-> Stamp(p), name |-> n]) : n \in {Missing, Str("n"), Null}}
\* what the table may hold before the calls: nothing, the item, the item with a createdAt
StoredItems ==
    {NoItem, [def |-> TRUE, attrs |-> Item1],
     [def |-> TRUE, attrs |-> Item1 @@ [createdAt |-> Str("t0")]]}

\* the clauses of an UpdateExpression, by the position of their first token
SetPlainAt(toks, i) ==
    /\ toks[i].k = "#" /\ i + 2 <= Len(toks)
    /\ toks[i + 1] = Text(" = ") /\ toks[i + 2].k = ":"
SetGuardedAt(toks, i) ==
    /\ toks[i].k = "#" /\ i + 5 <= Len(toks)
    /\ toks[i + 1] = Text(" = ") /\ toks[i + 2] = Text("if_not_exists(")
    /\ toks[i + 3] = toks[i] /\ toks[i + 5].k = ":"
RemovedAt(toks, i) ==
    /\ toks[i].k = "#"
    /\ \E r \in 1 .. (i - 1) : toks[r] = Text("REMOVE ")

\* UpdateItem: the attributes of the item after the request, every clause evaluated
\* against the item as it was; a missing item starts as its Key
ApplyUpdate(item, req) ==
    LET toks == req.UpdateExpression.toks
        names == req.ExpressionAttributeNames
        values == req.ExpressionAttributeValues
        base == IF item.def THEN item.attrs ELSE req.Key
        plain == {i \in DOMAIN toks : SetPlainAt(toks, i)}
        guarded == {i \in DOMAIN toks : SetGuardedAt(toks, i)}
        removed == {names[toks[i].s] : i \in {j \in DOMAIN toks : RemovedAt(toks, j)}}
        assigned == {names[toks[i].s] : i \in plain \cup guarded}
        ValueOf(a) ==
            IF \E i \in plain : names[toks[i].s] = a
            THEN values[toks[(CHOOSE i \in plain : names[toks[i].s] = a) + 2].s]
            ELSE IF a \in DOMAIN base THEN base[a]
            ELSE values[toks[(CHOOSE i \in guarded : names[toks[i].s] = a) + 5].s]
    IN [a \in ((DOMAIN base \cup assigned) \ removed) |->
            IF a \in assigned THEN ValueOf(a) ELSE base[a]]

NotCalled == [st |-> "idle"]

InitUpdates ==
    /\ pc = "idle"
    /\ call = [op |-> "none"]
    /\ sent = <<>>
    /\ outcome = NoOutcome
    /\ frame = NoFrame
    /\ indexes = TableIndexes
    /\ store \in StoredItems
    /\ updates = [p \in Updaters |-> NotCalled]
    /\ applied = <<>>
    /\ entity = [definition |-> UserDefinition] /\ instance = NoInstance

\* a caller starts entity.update: the call runs to its rejection or its request
ConcurrentUpdate(p) ==
    /\ updates[p].st = "idle"
    /\ \E key \in ItemKeys, patch \in UpdatePatches(p) :
        \E step \in {updateStart(UserDefinition, key, patch)} :
            updates' = [updates EXCEPT ![p] =
                IF step.kind = "reject"
                THEN [st |-> "rejected", patch |-> patch, error |-> step.error]
                ELSE [st |-> "sent", patch |-> patch, req |-> step.req]]
    /\ UNCHANGED <<pc, call, sent, outcome, frame, indexes, store, applied, entity, instance>>

\* storage applies one request in flight and answers with ReturnValues ALL_NEW
StorageApply(p) ==
    /\ updates[p].st = "sent"
    /\ \E Attributes \in {ApplyUpdate(store, updates[p].req)} :
        /\ store' = [def |-> TRUE, attrs |-> Attributes]
        /\ updates' = [updates EXCEPT ![p] =
                [st |-> "applied", patch |-> updates[p].patch, req |-> updates[p].req,
                 before |-> IF store.def THEN Field(store.attrs, "createdAt") ELSE Undef,
                 Attributes |-> Attributes]]
    /\ applied' = Append(applied, p)
    /\ UNCHANGED <<pc, call, sent, outcome, frame, indexes, entity, instance>>

\* the call resumes: return parseInstance(definition, entity, Attributes)
ConcurrentUpdateReply(p) ==
    /\ updates[p].st = "applied"
    /\ \E parsed \in {parseInstance(UserDefinition, updates[p].Attributes)} :
        updates' = [updates EXCEPT ![p] =
            [st |-> IF parsed.ok THEN "resolved" ELSE "rejected",
             patch |-> updates[p].patch, before |-> updates[p].before]]
    /\ UNCHANGED <<pc, call, sent, outcome, frame, indexes, store, applied, entity, instance>>

NextUpdates ==
    \E p \in Updaters : ConcurrentUpdate(p) \/ StorageApply(p) \/ ConcurrentUpdateReply(p)

SpecUpdates == InitUpdates /\ [][NextUpdates]_vars

\* C12: first write wins for createdAt. Among concurrent updates of one item that
\* each carry a createdAt, in every order of application the stored createdAt is
\* the one stored before them, or else the one of the update applied first; no
\* later update replaces it.
C12_FirstWriteWins ==
    applied # <<>> =>
        LET first == updates[applied[1]]
        IN store.attrs["createdAt"] =
                IF first.before # Undef THEN first.before ELSE first.patch["createdAt"]

\* both updates have been applied to an item that had no createdAt, the one of
\* the second caller first, and both calls have returned
C12_Witness ==
    /\ applied = <<2, 1>>
    /\ updates[2].before = Undef
    /\ updates[1].st = "resolved" /\ updates[2].st = "resolved"
    /\ store.attrs["createdAt"] = Stamp(2)

----------------------------------------------------------------------------
(* Key composition: expandPayload, expandPartialPayload, entity.put and the *)
(* read path applied to entity definitions with every shape of key rule     *)

\* a schema that declares a key attribute beside the data fields, as the schemas
\* of src/tests/integration/filters.test.ts lines 327-343 do
KeySchema ==
    <<[name |-> "a", type |-> "string", optional |-> FALSE, nullable |-> FALSE],
      [name |-> "b", type |-> "string", optional |-> TRUE, nullable |-> FALSE],
      [name |-> "n", type |-> "number", optional |-> TRUE, nullable |-> FALSE],
      [name |-> "sk", type |-> "string", optional |-> TRUE, nullable |-> FALSE]>>

PkRules ==
    {Function(<<Literal(Str("x")), FieldOf("a")>>, TRUE),
     Function(<<Literal(Str("x")), FieldOf("b")>>, TRUE),
     Function(<<FieldOf("b")>>, FALSE)}
SkRules ==
    {Constant(Str("k")),
     Constant(List(<<Str("a"), Str("b"), Str("c")>>)),
     Function(<<FieldOf("a"), FieldOf("b")>>, TRUE),
     Function(<<FieldOf("a")>>, TRUE),
     Function(<<FieldOf("n")>>, TRUE),
     Function(<<FieldOf("n")>>, FALSE)}
TypeRules ==
    {Constant(Num("5")),
     Function(<<FieldOf("a")>>, FALSE),
     Function(<<FieldOf("n")>>, FALSE)}
KeyDefinitions ==
    {[schema |-> KeySchema,
      keys |-> <<Entry("type", t), Entry("pk", p), Entry("sk", s)>>] :
        t \in TypeRules, p \in PkRules, s \in SkRules}

KeyRecords ==
    {MkObject([a |-> a, b |-> b, n |-> n, sk |-> k]) :
        a \in {Missing, Str("x")}, b \in {Missing, Str("y")},
        n \in {Missing, Num("5"), Num("0")}, k \in {Missing, Str("stale")}}

\* the entry of a key spec for a value a key rule returned: the value, or { equals: value }
KeyEntryForms == {"plain", "equals"}
KeyEntry(form, value) == IF form = "equals" THEN Obj("equals", value) ELSE value
\* the key spec that addresses an index by what the rules of its keys return for a record
KeySpecOf(definition, data, indexName, hashForm, rangeForm) ==
    LET index == indexes[indexName]
        parsed == SchemaParse(definition.schema, data, FALSE).value
    IN MkObject([x \in {"index", index.hashKey, index.rangeKey} |->
            IF x = "index" THEN (IF indexName = "table" THEN Missing ELSE Str(indexName))
            ELSE IF x = index.hashKey
                 THEN KeyEntry(hashForm, KeyRule(Lookup(definition.keys, x), parsed))
            ELSE KeyEntry(rangeForm, KeyRule(Lookup(definition.keys, x), parsed))])

KeyCalls ==
    {[op |-> o, definition |-> d, data |-> r] :
        o \in {"expandPayload", "expandPartialPayload", "put"},
        d \in KeyDefinitions, r \in KeyRecords}
    \cup {[op |-> "read", definition |-> d, data |-> r, index |-> i, hash |-> h, range |-> g] :
            d \in KeyDefinitions, r \in KeyRecords, i \in {"table", "gsi1"},
            h \in KeyEntryForms, g \in KeyEntryForms}

InitKeys ==
    /\ pc = "idle"
    /\ call \in KeyCalls
    /\ sent = <<>>
    /\ outcome = NoOutcome
    /\ frame = NoFrame
    /\ indexes = TableIndexes
    /\ store = NoItem /\ updates = <<>> /\ applied = <<>>
    /\ entity = [definition |-> UserDefinition] /\ instance = NoInstance

ApplyExpandPayload ==
    /\ pc = "idle"
    /\ call.op = "expandPayload"
    /\ Settle(expandPayload(call.definition, call.data))
    /\ UNCHANGED <<call, sent, frame, table>>

ApplyExpandPartialPayload ==
    /\ pc = "idle"
    /\ call.op = "expandPartialPayload"
    /\ Settle(expandPartialPayload(call.definition, call.data))
    /\ UNCHANGED <<call, sent, frame, table>>

\* entity.put of an entity with the definition, up to definition.table.put
ApplyPut ==
    /\ call.op = "put"
    /\ Start(call, putStart(call.definition, call.data), NoFrame)

\* a record is written, then addressed on an index by what its key rules return:
\* by get on the primary index, by query on any
ApplyRead ==
    /\ pc = "idle"
    /\ call.op = "read"
    /\ \E written \in {expandPayload(call.definition, call.data)} :
        /\ written.ok
        /\ \E key \in {KeySpecOf(call.definition, call.data, call.index, call.hash, call.range)} :
            outcome' = [st |-> "ok",
                        written |-> AsMap(written.value),
                        key |-> key,
                        get |-> IF call.index = "table" THEN getStart(key)
                                ELSE [kind |-> "none"],
                        query |-> queryStart(key, NoOptions)]
    /\ pc' = "done"
    /\ UNCHANGED <<call, sent, frame, table>>

NextKeys == ApplyExpandPayload \/ ApplyExpandPartialPayload \/ ApplyPut \/ ApplyRead

SpecKeys == InitKeys /\ [][NextKeys]_vars

\* expandPayload or expandPartialPayload has returned a payload
ExpandDone ==
    pc = "done" /\ call.op \in {"expandPayload", "expandPartialPayload"}
        /\ outcome.st = "resolved"
\* the validated record the key rules are applied to
ValidatedRecord ==
    SchemaParse(call.definition.schema, call.data, call.op = "expandPartialPayload").value
\* the parts joined with "#"
RECURSIVE JoinedParts(_)
JoinedParts(parts) ==
    IF parts = <<>> THEN ""
    ELSE IF Len(parts) = 1 THEN parts[1].s
    ELSE parts[1].s \o "#" \o JoinedParts(Tail(parts))
\* a rule result with no undefined part
Composes(value) ==
    IF IsArray(value) THEN \A j \in DOMAIN value.l : value.l[j] # Undef ELSE value # Undef
\* the physical value of a rule result that composes
Composed(value) == IF IsArray(value) THEN Str(JoinedParts(value.l)) ELSE value

\* C13: composite omission. For every list-valued key rule and every full or
\* partial record, the expanded payload has no attribute for the key if a part of
\* the list is undefined, and otherwise has the parts joined with "#".
C13_CompositeOmission ==
    ExpandDone =>
        \A i \in DOMAIN call.definition.keys :
            LET e == call.definition.keys[i]
                value == KeyRule(e.v, ValidatedRecord)
            IN IsArray(value) =>
                IF Composes(value)
                THEN Lookup(outcome.value, e.k) = Str(JoinedParts(value.l))
                ELSE ~Has(outcome.value, e.k)

\* C14: join law. A constant list <<a, b, c>> composes to "a#b#c", and a rule
\* returning the one-element list of a string or number composes to the same
\* physical value as the rule returning that element bare.
C14_JoinLaw ==
    ExpandDone =>
        /\ Lookup(call.definition.keys, "sk") = Constant(List(<<Str("a"), Str("b"), Str("c")>>))
            => Lookup(outcome.value, "sk") = Str("a#b#c")
        /\ \A i, j \in DOMAIN call.definition.keys :
            LET list == call.definition.keys[i]
                bare == call.definition.keys[j]
            IN (/\ list.v.fn /\ list.v.list /\ Len(list.v.parts) = 1
                /\ bare.v.fn /\ ~bare.v.list /\ bare.v.parts = list.v.parts
                /\ KeyRule(bare.v, ValidatedRecord).t \in {"string", "number"})
                => Lookup(outcome.value, list.k) = Lookup(outcome.value, bare.k)

\* put has validated the record and sent its item
PutSent == call.op = "put" /\ pc = "await" /\ sent[1].cmd = "put"
PutRecord == SchemaParse(call.definition.schema, call.data, FALSE)

\* C15: every attribute of the key-derivation map that an item written by put
\* carries holds the value its key rule derives from the validated record; a
\* same-named value of the caller's record never reaches the item.
C15_PutDerivesKeys ==
    PutSent =>
        \A i \in DOMAIN call.definition.keys :
            LET e == call.definition.keys[i]
                value == KeyRule(e.v, PutRecord.value)
            IN e.k \in DOMAIN sent[1].Item =>
                Composes(value) /\ sent[1].Item[e.k] = Composed(value)

\* C16: put of a valid record from which the hash key or the range key of the
\* `table` index does not compose is rejected by the engine, and no item is sent.
C16_PutRequiresPrimaryKey ==
    (/\ call.op = "put" /\ pc # "idle" /\ PutRecord.ok
     /\ \E k \in {indexes.table.hashKey, indexes.table.rangeKey} :
            ~Composes(KeyRule(Lookup(call.definition.keys, k), PutRecord.value)))
        => RejectedBy({"TurbineError"})

\* the attribute of the acting index is read back as it was written
C17_Agrees(attr) ==
    /\ call.index = "table" =>
        /\ outcome.get.kind = "send"
        /\ outcome.get.req.Key[attr] = outcome.written[attr]
    /\ outcome.query.kind = "send"
    /\ outcome.query.req.ExpressionAttributeValues[":key_" \o attr] = outcome.written[attr]

\* C17: write/read key agreement. When the hash and range rules of an index compose
\* on a full record, the key values that get (resolveIndex, resolveKeyValues) and
\* query (the key-condition value placeholders) compute from a key spec made of
\* what the rules return, plain or as { equals }, are the values expandPayload stores.
C17_WriteReadAgreement ==
    (/\ pc = "done" /\ call.op = "read"
     /\ \A k \in {indexes[call.index].hashKey, indexes[call.index].rangeKey} :
            Composes(KeyRule(Lookup(call.definition.keys, k), ValidatedRecord)))
        => /\ C17_Agrees(indexes[call.index].hashKey)
           /\ C17_Agrees(indexes[call.index].rangeKey)

----------------------------------------------------------------------------
(* Pagination *)

\* the request that produced a page, with the start position replaced by its cursor
C18_Replay(page) ==
    [page.request EXCEPT !.options = MapSet(@, "ExclusiveStartKey", page.lastEvaluatedKey)]

RECURSIVE C19_Items(_)
C19_Items(replies) ==
    IF replies = <<>> THEN <<>> ELSE replies[1].Items \o C19_Items(Tail(replies))

\* C19: queryAll fetches its pages one at a time. At most one of its queries is
\* unanswered, query n+1 starts at the cursor answer n carried, and the list it
\* returns is the items of all answers in the order of the answers.
C19_QueryAllSequential ==
    call.op = "queryAll" =>
        /\ Len(sent) - Len(frame.replies) \in {0, 1}
        /\ \A n \in 2 .. Len(sent) :
            /\ frame.replies[n - 1].LastEvaluatedKey # Undef
            /\ sent[n] = [sent[1] EXCEPT !.options =
                    MapSet(@, "ExclusiveStartKey", frame.replies[n - 1].LastEvaluatedKey)]
        /\ (pc = "done" /\ outcome.st = "resolved") =>
            [i \in DOMAIN outcome.value |-> outcome.value[i].input] = C19_Items(frame.replies)

\* queryAll has returned the four items of two pages
C19_Witness ==
    /\ call.op = "queryAll" /\ pc = "done" /\ outcome.st = "resolved"
    /\ Len(frame.replies) = 2 /\ Len(sent) = 2
    /\ Len(outcome.value) = 4

\* queryAll alone, every query answered by storage
NextQueryAll == QueryAll \/ QueryAllReply \/ Return
SpecQueryAll == Init /\ [][NextQueryAll]_vars /\ WF_vars(QueryAllReply)

\* C20: termination of queryAll. When storage answers every query, and with a
\* page without cursor in the end, queryAll completes; it completes at the first
\* answer without a cursor and issues no query after it.
C20_QueryAllTerminates ==
    /\ (call.op = "queryAll" /\ pc = "await") ~> (call.op = "queryAll" /\ pc = "done")
    /\ [](call.op = "queryAll" =>
            \A n \in DOMAIN frame.replies :
                frame.replies[n].LastEvaluatedKey = Undef =>
                    n = Len(frame.replies) /\ Len(sent) = n /\ pc = "done")

\* queryAll has completed after an empty page with a cursor and a last page
C20_Witness ==
    /\ call.op = "queryAll" /\ pc = "done" /\ outcome.st = "resolved"
    /\ Len(frame.replies) = 2
    /\ frame.replies[1].Items = <<>> /\ frame.replies[1].LastEvaluatedKey # Undef
    /\ frame.replies[2].LastEvaluatedKey = Undef

----------------------------------------------------------------------------
(* Failures of the storage calls *)

\* the last answer of storage to the running call was a failure
C25_Failed ==
    /\ frame.replies # <<>>
    /\ "failed" \in DOMAIN frame.replies[Len(frame.replies)]

\* C25: storage errors are propagated and never retried. When a storage call of
\* put, get, update, delete, query or of a page fetch of queryAll fails, the
\* operation is rejected with that same error, the failed request is the last it
\* issued, and queryAll does not resolve with the items of its earlier pages.
C25_StorageErrorsPropagate ==
    C25_Failed =>
        /\ pc = "done"
        /\ outcome = [st |-> "rejected", error |-> frame.replies[Len(frame.replies)].error]
        /\ Len(sent) = IF call.op = "queryAll" THEN Len(frame.replies) ELSE 1

\* the second page fetch of a queryAll that holds the items of its first page fails
C25_Witness ==
    /\ C25_Failed
    /\ call.op = "queryAll" /\ Len(sent) = 2 /\ frame.items # <<>>
    /\ outcome.error = ThrottlingError

----------------------------------------------------------------------------
(* The caller's key spec *)

\* C28: get, update and delete leave the caller's key-spec object as it was: the
\* object has the same fields and values after the call, and a query with the same
\* object resolves as it would have before the call.
C28_KeySpecUnchanged ==
    (call.op \in SingleOps /\ pc = "done") =>
        /\ call.key = call.arg
        /\ queryStart(call.key, NoOptions) = queryStart(call.arg, NoOptions)

----------------------------------------------------------------------------
(* Value placeholders *)

\* the number of positions of a value placeholder in an expression
C29_Operands(toks) == Cardinality({i \in DOMAIN toks : toks[i].k = ":"})

\* C29: within one generated query the value placeholders are injective. Every
\* operand position of the key condition and of the filter has a placeholder of
\* its own, so ExpressionAttributeValues holds as many values as the expressions
\* have operand positions.
C29_PlaceholderInjectivity ==
    QueryDone =>
        LET q == outcome.value
        IN C29_Operands(q.KeyConditionExpression.toks \o q.FilterExpression.toks)
                = Cardinality(DOMAIN q.ExpressionAttributeValues)

----------------------------------------------------------------------------
(* The entity over a table that stores its items. Storage is the DynamoDB   *)
(* table behind definition.table (src/src/expressions.ts lines 218-246):    *)
(* PutItem, GetItem, UpdateItem, DeleteItem and Query on the set of items.  *)

\* an entity whose only key rules are those of the primary index
PlainKeys ==
    <<Entry("pk", Function(<<Literal(Str("user")), FieldOf("id")>>, TRUE)),
      Entry("sk", Function(<<FieldOf("email")>>, FALSE))>>
\* an entity whose gsi1 hash key is a field of the record
NamedKeys == <<Entry("type", Function(<<FieldOf("name")>>, FALSE))>> \o PlainKeys
Entities ==
    {[definition |-> [schema |-> Schema, keys |-> k]] : k \in {UserKeys, PlainKeys, NamedKeys}}

StoreRecords ==
    {MkObject([id |-> Str("1"), email |-> Str("a@b"), name |-> Missing]),
     MkObject([id |-> Str("1"), email |-> Str("c@d"), name |-> Str("n")]),
     MkObject([id |-> Missing, email |-> Str("a@b"), name |-> Missing])}
StoreKeys ==
    {MkObject([pk |-> Str("user#1"), sk |-> Str("a@b")]),
     MkObject([pk |-> List(<<Str("user"), Str("1")>>), sk |-> Obj("equals", Str("c@d"))]),
     MkObject([pk |-> Str("user#1"), sk |-> Missing]),
     MkObject([pk |-> Missing, sk |-> Str("a@b")])}
StorePatches == {MkObject([name |-> n]) : n \in {Missing, Str("m"), Null, Num("0")}}
StoreQueryKeys ==
    {MkObject([pk |-> Str("user#1"), type |-> Missing, index |-> Missing]),
     MkObject([pk |-> Missing, type |-> Str("user"), index |-> Str("gsi1")]),
     MkObject([pk |-> Str("user#1"), type |-> Missing, index |-> Str("gsi2")])}
StoreQueryOptions ==
    {NoOptions,
     Options(Object(<<Entry("name", Obj("exists", Bool("true")))>>), EmptyMap),
     Options(Object(<<Entry("name", Str("n"))>>), [x \in {"Limit"} |-> Num("2")])}

\* the strings of the items in byte order, and what is left of one of them after
\* one of its prefixes
Collation == <<"a", "a@b", "c", "c@d", "m", "n", "user", "user#1">>
Affixes == {"", "a", "c", "user", "@b", "@d", "#1"}
Collated(v) == v.t = "string" /\ \E n \in DOMAIN Collation : Collation[n] = v.s
Rank(v) == CHOOSE n \in DOMAIN Collation : Collation[n] = v.s
Precedes(x, y) == Collated(x) /\ Collated(y) /\ Rank(x) < Rank(y)
BeginsWith(x, p) == x.t = "string" /\ p.t = "string" /\ \E r \in Affixes : x.s = p.s \o r
Contains(x, p) ==
    x.t = "string" /\ p.t = "string" /\ \E h, r \in Affixes : x.s = h \o p.s \o r

\* a comparison of a condition expression, by the text between its operands
Compare(op, x, y) ==
    CASE op = " = " -> x = y
      [] op = " <> " -> x # y
      [] op = " < " -> Precedes(x, y)
      [] op = " <= " -> Precedes(x, y) \/ x = y
      [] op = " > " -> Precedes(y, x)
      [] op = " >= " -> Precedes(y, x) \/ x = y

\* the number of pieces of the clause that starts at piece i
ClauseLen(toks, i) ==
    IF toks[i].k = "#" THEN (IF toks[i + 1] = Text(" BETWEEN ") THEN 5 ELSE 3)
    ELSE IF toks[i + 2] = Text(")") THEN 3 ELSE 5
RECURSIVE ClauseStarts(_, _)
\* the first pieces of the clauses joined by " AND "
ClauseStarts(toks, i) ==
    IF i > Len(toks) THEN {} ELSE {i} \cup ClauseStarts(toks, i + ClauseLen(toks, i) + 1)

\* the clause at piece i of a condition expression holds of the item
ClauseHolds(item, req, toks, i) ==
    LET Attr(j) == req.ExpressionAttributeNames[toks[j].s]
        Value(j) == req.ExpressionAttributeValues[toks[j].s]
    IN IF toks[i].k = "#" THEN
            IF toks[i + 1] = Text(" BETWEEN ") THEN
                /\ Attr(i) \in DOMAIN item
                /\ Precedes(Value(i + 2), item[Attr(i)]) \/ Value(i + 2) = item[Attr(i)]
                /\ Precedes(item[Attr(i)], Value(i + 4)) \/ Value(i + 4) = item[Attr(i)]
            ELSE IF Attr(i) \notin DOMAIN item THEN toks[i + 1] = Text(" <> ")
            ELSE Compare(toks[i + 1].s, item[Attr(i)], Value(i + 2))
       ELSE CASE toks[i] = Text("attribute_exists(") -> Attr(i + 1) \in DOMAIN item
              [] toks[i] = Text("attribute_not_exists(") -> Attr(i + 1) \notin DOMAIN item
              [] toks[i] = Text("begins_with(") ->
                    Attr(i + 1) \in DOMAIN item /\ BeginsWith(item[Attr(i + 1)], Value(i + 3))
              [] toks[i] = Text("contains(") ->
                    Attr(i + 1) \in DOMAIN item /\ Contains(item[Attr(i + 1)], Value(i + 3))
              [] OTHER -> FALSE
Satisfies(item, req, toks) == \A i \in ClauseStarts(toks, 1) : ClauseHolds(item, req, toks, i)

\* the primary key of an item, or of the Key of a request
PrimaryKey(attrs) ==
    [x \in {indexes.table.hashKey, indexes.table.rangeKey} |-> Field(attrs, x)]
\* the attributes are those of the key schema of the table, both strings
KeyOfSchema(Key) == \A x \in DOMAIN Key : Key[x].t = "string"
\* the item the table holds under a primary key
Stored(items, Key) ==
    IF \E i \in items : PrimaryKey(i) = Key
    THEN [def |-> TRUE, attrs |-> CHOOSE i \in items : PrimaryKey(i) = Key]
    ELSE NoItem
Without(items, Key) == {i \in items : PrimaryKey(i) # Key}

\* storage refuses a request it finds invalid (ValidationException)
ValidationException == [name |-> "StorageError", code |-> "Validation", a |-> "", b |-> ""]
Refused == [ok |-> FALSE, error |-> ValidationException]
\* storage applies a request and answers
Answered(items, answer) == [ok |-> TRUE, table |-> items, answer |-> answer]

PutItem(items, req) ==
    IF ~KeyOfSchema(PrimaryKey(req.Item)) THEN Refused
    ELSE Answered(Without(items, PrimaryKey(req.Item)) \cup {req.Item}, [Attributes |-> Undef])

GetItem(items, req) ==
    IF req.Key # PrimaryKey(req.Key) \/ ~KeyOfSchema(req.Key) THEN Refused
    ELSE Bind(Stored(items, req.Key), LAMBDA item :
            Answered(items, [Item |-> IF item.def THEN item.attrs ELSE Undef]))

DeleteItem(items, req) ==
    IF req.Key # PrimaryKey(req.Key) \/ ~KeyOfSchema(req.Key) THEN Refused
    ELSE Answered(Without(items, req.Key), [Attributes |-> Undef])

\* UpdateItem refuses an empty expression, an empty map of values and an
\* expression that names an attribute of the primary key
UpdateItem(items, req) ==
    IF \/ req.Key # PrimaryKey(req.Key) \/ ~KeyOfSchema(req.Key)
       \/ req.UpdateExpression.toks = <<>>
       \/ DOMAIN req.ExpressionAttributeValues = {}
       \/ \E x \in DOMAIN req.ExpressionAttributeNames :
            req.ExpressionAttributeNames[x] \in DOMAIN req.Key
    THEN Refused
    ELSE Bind(ApplyUpdate(Stored(items, req.Key), req), LAMBDA Attributes :
            Answered(Without(items, req.Key) \cup {Attributes}, [Attributes |-> Attributes]))

RECURSIVE Sorted(_, _)
\* the items in the order of an attribute
Sorted(items, attr) ==
    IF items = {} THEN <<>>
    ELSE LET first == CHOOSE i \in items : \A j \in items : ~Precedes(j[attr], i[attr])
         IN <<first>> \o Sorted(items \ {first}, attr)
NumberOf(v) == CHOOSE n \in 0 .. 9 : ToString(n) = v.s

\* Query: the items of the index that satisfy the key condition, in the order of the
\* range key; Limit bounds the items evaluated, the filter is applied to those, and
\* the cursor is the key of the last item evaluated when items are left. The calls of
\* this section pass no ExclusiveStartKey.
QueryItems(items, req) ==
    LET index == IF req.IndexName = Undef THEN indexes.table ELSE indexes[req.IndexName.s]
        keyToks == req.KeyConditionExpression.toks
        selected ==
            Sorted({i \in items : /\ {index.hashKey, index.rangeKey} \subseteq DOMAIN i
                                  /\ Satisfies(i, req, keyToks)}, index.rangeKey)
        limit == IF "Limit" \in DOMAIN req.options /\ NumberOf(req.options["Limit"]) < Len(selected)
                 THEN NumberOf(req.options["Limit"]) ELSE Len(selected)
        evaluated == SubSeq(selected, 1, limit)
        Items == IF req.FilterExpression.def
                 THEN SelectSeq(evaluated, LAMBDA i : Satisfies(i, req, req.FilterExpression.toks))
                 ELSE evaluated
    IN IF \/ req.FilterExpression.def /\ req.FilterExpression.toks = <<>>
          \/ ~(/\ keyToks[1].k = "#" /\ keyToks[2] = Text(" = ")
               /\ req.ExpressionAttributeNames[keyToks[1].s] = index.hashKey)
       THEN Refused
       ELSE Answered(items,
                [Items |-> Items,
                 LastEvaluatedKey |->
                    IF limit < Len(selected)
                    THEN Obj(index.rangeKey, evaluated[limit][index.rangeKey]) ELSE Undef])

\* what storage does with a request
Storage(items, req) ==
    CASE req.cmd = "put" -> PutItem(items, req)
      [] req.cmd = "get" -> GetItem(items, req)
      [] req.cmd = "delete" -> DeleteItem(items, req)
      [] req.cmd = "update" -> UpdateItem(items, req)
      [] req.cmd = "query" -> QueryItems(items, req)

\* result.update of parseInstance taking the hash key alone
instanceKey_HashOnly(typedInput) ==
    LET index == indexes.table
    IN [x \in {index.hashKey} |-> Field(typedInput, x)]

\* the key result.update passes to entity.update: the values of the raw input
\* under the hash key and, if the table index has one, the range key
instanceKey(typedInput) ==
    LET index == indexes.table
    IN IF index.rangeKey # ""
       THEN [x \in {index.hashKey, index.rangeKey} |-> Field(typedInput, x)]
       ELSE [x \in {index.hashKey} |-> Field(typedInput, x)]

\* Object.assign(result, updated): the fields of updated over those of result,
\* and the update capability of updated; `assigned` remembers that it happened
ObjectAssign(result, updated) ==
    [result EXCEPT !.fields = Spread(@, updated.fields), !.input = updated.input,
                   !.assigned = TRUE]

\* the table and the held instance when the call started
Snapshot == [store |-> store, instance |-> instance]

InitStore ==
    /\ pc = "idle"
    /\ call = [op |-> "none"]
    /\ sent = <<>>
    /\ outcome = NoOutcome
    /\ frame = NoFrame
    /\ indexes = TableIndexes
    /\ store = {} /\ updates = <<>> /\ applied = <<>>
    /\ entity \in Entities /\ instance = NoInstance

StorePut ==
    /\ pc = "idle"
    /\ \E data \in StoreRecords :
        Start([op |-> "put", data |-> data, before |-> Snapshot],
              putStart(entity.definition, data), NoFrame)

StoreGet ==
    /\ pc = "idle"
    /\ \E key \in StoreKeys :
        Start([op |-> "get", arg |-> key, key |-> ForceTable(key), before |-> Snapshot],
              getStart(key), NoFrame)

StoreDelete ==
    /\ pc = "idle"
    /\ \E key \in StoreKeys :
        Start([op |-> "delete", arg |-> key, key |-> ForceTable(key), before |-> Snapshot],
              deleteStart(key), NoFrame)

StoreUpdate ==
    /\ pc = "idle"
    /\ \E key \in StoreKeys, patch \in StorePatches :
        Start([op |-> "update", arg |-> key, key |-> ForceTable(key), patch |-> patch,
               before |-> Snapshot],
              updateStart(entity.definition, key, patch), NoFrame)

StoreQueryOne ==
    /\ pc = "idle"
    /\ \E key \in StoreQueryKeys, options \in StoreQueryOptions :
        Start([op |-> "queryOne", arg |-> key, key |-> key, options |-> options,
               before |-> Snapshot],
              queryStart(key, queryOneOptions(options)), Frame(queryOneOptions(options)))

\* instance.update(patch) of the held instance: entity.update with the key of the
\* raw input the update capability closes over
InstanceUpdate ==
    /\ pc = "idle" /\ instance.def
    /\ \E patch \in StorePatches : \E key \in {instanceKey(instance.input)} :
        Start([op |-> "instance.update", arg |-> key, key |-> ForceTable(key),
               patch |-> patch, before |-> Snapshot],
              updateStart(entity.definition, key, patch), NoFrame)

\* storage refuses the request: the call rejects as with any failure of storage
Refusal(r) ==
    /\ outcome' = Propagate(r.error, frame.items)
    /\ pc' = "done"
    /\ frame' = Received(Failure(r.error))
    /\ UNCHANGED <<store, applied, instance>>

StorePutReply ==
    /\ Awaiting("put", "put")
    /\ \E r \in {Storage(store, sent[1])} :
        IF ~r.ok THEN Refusal(r)
        ELSE /\ store' = r.table
             /\ applied' = MapSet(applied, PrimaryKey(sent[1].Item), "put")
             /\ Settle(parseInstance(entity.definition, sent[1].Item))
             /\ frame' = Received(r.answer)
             /\ UNCHANGED instance
    /\ UNCHANGED <<call, sent, indexes, updates, entity>>

StoreGetReply ==
    /\ Awaiting("get", "get")
    /\ \E r \in {Storage(store, sent[1])} :
        IF ~r.ok THEN Refusal(r)
        ELSE /\ IF r.answer.Item = Undef THEN Resolve(Null)
                ELSE Settle(parseInstance(entity.definition, r.answer.Item))
             /\ frame' = Received(r.answer)
             /\ UNCHANGED <<store, applied, instance>>
    /\ UNCHANGED <<call, sent, indexes, updates, entity>>

StoreDeleteReply ==
    /\ Awaiting("delete", "delete")
    /\ \E r \in {Storage(store, sent[1])} :
        IF ~r.ok THEN Refusal(r)
        ELSE /\ store' = r.table
             /\ applied' = MapSet(applied, sent[1].Key, "delete")
             /\ Resolve(Undef)
             /\ frame' = Received(r.answer)
             /\ UNCHANGED instance
    /\ UNCHANGED <<call, sent, indexes, updates, entity>>

StoreUpdateReply ==
    /\ Awaiting("update", "update")
    /\ \E r \in {Storage(store, sent[1])} :
        IF ~r.ok THEN Refusal(r)
        ELSE /\ store' = r.table
             /\ Settle(parseInstance(entity.definition, r.answer.Attributes))
             /\ frame' = Received(r.answer)
             /\ UNCHANGED <<applied, instance>>
    /\ UNCHANGED <<call, sent, indexes, updates, entity>>

\* the update of result.update returns: Object.assign(result, updated); return updated
InstanceUpdateReply ==
    /\ Awaiting("instance.update", "update")
    /\ \E r \in {Storage(store, sent[1])} :
        IF ~r.ok THEN Refusal(r)
        ELSE /\ store' = r.table
             /\ \E updated \in {parseInstance(entity.definition, r.answer.Attributes)} :
                    IF updated.ok
                    THEN Resolve(updated.value)
                            /\ instance' = ObjectAssign(instance, updated.value)
                    ELSE RejectWith(updated.error) /\ UNCHANGED instance
             /\ frame' = Received(r.answer)
             /\ UNCHANGED applied
    /\ UNCHANGED <<call, sent, indexes, updates, entity>>

StoreQueryOneReply ==
    /\ Awaiting("queryOne", "query")
    /\ \E r \in {Storage(store, sent[1])} :
        IF ~r.ok THEN Refusal(r)
        ELSE /\ \E page \in {PageOf(r.answer)} :
                    IF ~page.ok THEN RejectWith(page.error)
                    ELSE Resolve(IF page.value.items # <<>> THEN page.value.items[1] ELSE Null)
             /\ frame' = Received(r.answer)
             /\ UNCHANGED <<store, applied, instance>>
    /\ UNCHANGED <<call, sent, indexes, updates, entity>>

\* the caller keeps the instance the call resolved with; `built` remembers the
\* primary key of the raw item it was built from
Keep ==
    /\ pc = "done" /\ outcome.st = "resolved"
    /\ call.op \in {"put", "get", "update", "instance.update", "queryOne"}
    /\ outcome.value # Null
    /\ instance' = [def |-> TRUE, fields |-> outcome.value.fields,
                    input |-> outcome.value.input,
                    built |-> PrimaryKey(outcome.value.input), assigned |-> FALSE]
    /\ pc' = "idle"
    /\ call' = [op |-> "none"]
    /\ sent' = <<>>
    /\ outcome' = NoOutcome
    /\ frame' = NoFrame
    /\ UNCHANGED <<indexes, store, updates, applied, entity>>

\* the caller assigns to a field of the instance it holds
Mutate ==
    /\ pc = "idle" /\ instance.def
    /\ \E f \in {"email"}, v \in {Str("zz")} :
        /\ Field(instance.fields, f) # v
        /\ instance' = [instance EXCEPT !.fields = MapSet(@, f, v)]
    /\ UNCHANGED <<pc, call, sent, outcome, frame, indexes, store, updates, applied, entity>>

NextStore ==
    \/ StorePut \/ StorePutReply \/ StoreGet \/ StoreGetReply
    \/ StoreDelete \/ StoreDeleteReply \/ StoreUpdate \/ StoreUpdateReply
    \/ StoreQueryOne \/ StoreQueryOneReply \/ InstanceUpdate \/ InstanceUpdateReply
    \/ StorageFailure \/ Keep \/ Mutate \/ Return

SpecStore == InitStore /\ [][NextStore]_vars

----------------------------------------------------------------------------
(* Properties of the entity over its table *)

\* the storage call of the running call has been answered, not refused or failed
StorageAnswered == frame.replies # <<>> /\ "failed" \notin DOMAIN frame.replies[1]
\* the items of the table that satisfy the key condition and the filter of a
\* query request, in index order
C21_Matching(req) == QueryItems(store, [req EXCEPT !.options = EmptyMap]).answer.Items

\* C21: queryOne returns the first item, in index order, that satisfies the key
\* condition and the filters, and null only when no stored item satisfies them,
\* Limit bounding the items storage evaluates before it applies the filter.
C21_QueryOneFirstMatch ==
    (call.op = "queryOne" /\ pc = "done" /\ outcome.st = "resolved") =>
        LET matching == C21_Matching(sent[1])
        IN IF matching = <<>> THEN outcome.value = Null
           ELSE outcome.value # Null /\ outcome.value.input = matching[1]

\* C22: instance.update(patch) addresses the item whose table-index hash and range
\* key values were in the raw item the instance was built from, whatever the caller
\* has assigned to the fields of the instance and whatever earlier instance.update
\* calls have copied onto it: the call is never rejected for its key, and the Key of
\* its request is that primary key.
C22_InstanceUpdateKey ==
    (call.op = "instance.update" /\ pc # "idle") =>
        /\ ~(outcome.st = "rejected" /\ outcome.error.name \in {"TurbineError", "TypeError"})
        /\ sent # <<>> => sent[1].Key = call.before.instance.built

\* the request of an instance.update on an instance whose email the caller has
\* overwritten and onto which an earlier instance.update has copied its result
C22_Witness ==
    /\ call.op = "instance.update" /\ pc = "await"
    /\ call.before.instance.assigned
    /\ call.before.instance.fields["email"] = Str("zz")
    /\ Field(call.before.instance.input, "name") = Str("m")

\* C23: after instance.update(patch) resolves, every schema field of the instance
\* equals the field of the updated item the call returned; after it rejects, the
\* instance is as it was.
C23_InPlaceUpdate ==
    (call.op = "instance.update" /\ pc = "done") =>
        IF outcome.st = "resolved"
        THEN \A i \in DOMAIN entity.definition.schema :
                Field(instance.fields, entity.definition.schema[i].name)
                    = Field(outcome.value.fields, entity.definition.schema[i].name)
        ELSE instance = call.before.instance

\* C24: no network before an engine error. Whenever put, get, update, delete or the
\* first page of a query is rejected with an error of the engine (schema
\* validation, unknown index, missing hash key, invalid key expression), the call
\* has issued no storage request and the table is as it was.
C24_NoNetworkBeforeEngineError ==
    (/\ pc = "done" /\ call.op \in {"put", "get", "update", "delete", "queryOne"}
     /\ outcome.st = "rejected" /\ outcome.error.name \in {"TurbineError", "ZodError"})
        => sent = <<>> /\ store = call.before.store

\* what get resolves with for a key spec, given that it is sent and answered
C26_Get(key) ==
    Bind(GetItem(store, getStart(key).req).answer.Item, LAMBDA Item :
        IF Item = Undef THEN [ok |-> TRUE, value |-> Null]
        ELSE parseInstance(entity.definition, Item))

\* C26: over the table, get(key) returns null exactly when no item is stored under
\* the primary key and otherwise an instance of the stored item; after put(d)
\* succeeds, get with the primary key derived from d returns an instance whose
\* fields are the validated d; after delete(key) succeeds get(key) returns null
\* until a later put under the same primary key; delete of an absent item succeeds.
C26_Crud ==
    /\ (call.op = "get" /\ pc = "done" /\ StorageAnswered) =>
            /\ outcome.st = "resolved"
            /\ LET item == Stored(store, sent[1].Key)
               IN IF item.def
                  THEN outcome.value # Null /\ outcome.value.input = item.attrs
                  ELSE outcome.value = Null
    /\ (call.op = "put" /\ pc = "done" /\ outcome.st = "resolved") =>
            LET got == C26_Get(PrimaryKey(sent[1].Item))
            IN /\ got.ok /\ got.value # Null
               /\ got.value.fields
                    = AsMap(SchemaParse(entity.definition.schema, call.data, FALSE).value)
    /\ \A key \in DOMAIN applied :
            applied[key] = "delete" => C26_Get(key) = [ok |-> TRUE, value |-> Null]
    /\ (call.op = "delete" /\ pc = "done" /\ StorageAnswered) => outcome.st = "resolved"

\* the item an update addressed, before and after the call
C27_Before == Stored(call.before.store, sent[1].Key)
C27_After == Stored(store, sent[1].Key)
\* storage has applied the update of the running call to a stored item
C27_Updated ==
    /\ call.op \in {"update", "instance.update"} /\ pc = "done" /\ StorageAnswered
    /\ C27_Before.def
\* the value a key rule gives from the validated patch alone, undefined if none
C27_Derived(a) ==
    LET value == KeyRule(Lookup(entity.definition.keys, a),
                         SchemaParse(entity.definition.schema, call.patch, TRUE).value)
    IN IF Composes(value) THEN Composed(value) ELSE Undef

C30_NonEmptyUpdateExpression ==
    \A i \in DOMAIN sent :
        sent[i].cmd = "update" =>
            \E j \in DOMAIN sent[i].UpdateExpression.toks :
                sent[i].UpdateExpression.toks[j] \in {Text("SET "), Text("REMOVE ")}

====
